---- MODULE Spec2Model ----
(***************************************************************************)
(* A state-machine model of the SonarLint MCP server's SLOOP bridge        *)
(* (src/src/sloop-bridge.ts) and of the tool handlers of src/src/index.ts  *)
(* that drive it.                                                          *)
(*                                                                         *)
(* JavaScript runs one macrotask at a time: every action below is one      *)
(* event-loop turn (an API call, a stdout 'data' event carrying one        *)
(* decoded frame, a timer, a child-process event) together with the        *)
(* promise reactions it triggers inside the bridge (the then/catch of      *)
(* connect() and the code after the await of disconnect()), which Node     *)
(* runs as microtasks before the next event.                               *)
(***************************************************************************)
EXTENDS Integers, Sequences, FiniteSets, TLC

\* ---------------------------------------------------------------- bounds
MaxMessageId == 3   \* requests one bridge sends in a run (messageId cap)
MaxProcs == 2       \* backend processes one bridge spawns in a run
RouterMaxId == 2    \* messageId cap of the routing specification
RouterMaxProcs == 1 \* processes spawned in the routing specification
FairMaxId == 2      \* messageId cap of the specification with fairness
FairMaxProcs == 1   \* processes spawned in the specification with fairness
ObsMaxId == 2       \* messageId cap of the observed call-lifecycle specification
ObsMaxProcs == 1    \* processes spawned in the observed call-lifecycle specification
FixMaxId == 4       \* messageId cap of the quick-fix specification
FixableIssues == 2  \* findings with a quick fix in the file the tools work on
MaxFrames == 2      \* frames the backend writes in the framing specification
MaxCallbacks == 1   \* callback requests the backend makes
ScopeMaxId == 3     \* requests sent in the scope specification

\* ------------------------------------------------------ program constants
AnalysisTimeoutMs == 60000
ControlTimeoutMs == 30000
SettleDelayMs == 500

\* ------------------------------------------------------------- JS values
Undefined == "undefined"

\* message ids as JavaScript values: "n<k>" is the number k, "s<k>" the
\* string of the decimal digits of k, "" the empty string.
String(n) == <<"s1", "s2", "s3", "s4", "s5", "s6", "s7", "s8", "s9">>[n]

\* JavaScript truthiness of an id or method value (x && ..., !x).
Truthy(v) == v \notin {Undefined, "n0", ""}

\* field presence in a decoded message.
Present(v) == v # Undefined

IdVals == {Undefined, "n0", "", "n1"} \cup {String(i) : i \in 1..MaxMessageId}

\* the ids of the backend's own requests: its id space overlaps the bridge's.
RequestIdVals == {Undefined, "n0", "", "n1", "s1", "s2"}

CallbackMethods ==
  {"listFiles", "getBaseDir", "getFileExclusions", "getInferredAnalysisProperties"}

InboundMethods == CallbackMethods \cup {"unknown/method", "log", ""}

ClientMethods == {"analysis/analyzeFilesAndTrack", "getRuleDetails"}

NotificationMethods == {"configuration/didAddConfigurationScopes", "file/didOpenFile"}

\* the result the backend computes for the request with a given id: results
\* are opaque to the bridge, so one distinct value per id shows every mix-up.
ResultFor(id) == "result:" \o id

NoError == [present |-> FALSE, message |-> Undefined]

\* an error object, with a message, with an empty one, with none.
Errors == {[present |-> TRUE, message |-> m] : m \in {"boom", "", Undefined}}

\* decoded frames the backend can send.
Messages ==
  [id : RequestIdVals, method : InboundMethods, result : {Undefined}, error : {NoError}]
  \cup {[id |-> id, method |-> Undefined, result |-> ResultFor(id), error |-> NoError] :
          id \in IdVals}
  \cup [id : IdVals, method : {Undefined}, result : {Undefined}, error : Errors]

\* in a call record: no response has been matched to the call.
NoResponse == [id |-> Undefined, method |-> Undefined, result |-> Undefined, error |-> NoError]

NotConnected == "Not connected to SLOOP"
ProcessClosed == "SLOOP process closed"
RpcErrorDefault == "RPC Error"
TypeErrorNull == "TypeError: Cannot read properties of null (reading 'kill')"

VARIABLES
  process,          \* this.process: 0 is null, p > 0 the p-th spawned child
  connected,        \* this.connected
  messageId,        \* this.messageId
  pendingRequests,  \* keys of this.pendingRequests (k stands for String(k))
  timers,           \* ids whose setTimeout is armed
  calls,            \* per request sent: its promise and who awaits it
  procs,            \* per spawned child: "running" until its close event, then "closed"
  connectPromise,   \* per spawned child: the promise of the connect() that spawned it
  session,          \* the session state of spec section 4.7
  killed,           \* children that kill() was called on
  last,             \* what the latest event-loop turn did
  scopeMap,         \* index.ts scopeMap: projectRoot -> scopeId, Undefined where unset
  disk,             \* the file on disk: how many fixes were written to it
  tool,             \* the tool call being served, and where its handler is
  backend,          \* the backend's view of the file
  analysed,         \* per analysis request: what the backend computed it from
  messageBuffer,    \* this.messageBuffer: a string, as its UTF-16 code units
  stream,           \* bytes the backend wrote to stdout, not yet read
  frames,           \* the frames the backend wrote, in order
  fed,              \* how many bytes the 'data' events have carried so far
  routed,           \* the messages handed to handleMessage, in order
  registered,       \* the scope ids sent in didAddConfigurationScopes, in order
  responses,        \* the answers written to listFiles and getBaseDir, in order
  files,            \* the source files on disk
  awaiting,         \* analyze_file and analyze_content handlers at their await
  batch,            \* the quick-fix loops: the issues found and the edits applied; the
                    \* lines of the file and the text edits still to apply
  installed,        \* the backend's plugins directory exists
  writable,         \* writeFileSync of the file to fix succeeds
  main,             \* main(): "no", "connecting" (awaiting ensureSloopBridge), "serving"
  results,          \* the tool calls of the MCP client and the results returned
  sent              \* what the handlers wrote to the backend and to disk, in order

fixvars == <<scopeMap, disk, tool, backend, analysed, registered>>

framevars == <<messageBuffer, stream, frames, fed, routed>>

scopevars == <<responses, files, awaiting>>

hostvars == <<batch, installed, writable, main, results, sent>>

vars == <<process, connected, messageId, pendingRequests, timers, calls, procs,
          connectPromise, session, killed, last, fixvars, framevars, scopevars,
          hostvars>>

\* config.autoInitialize !== false: index.ts constructs the bridge without a
\* config, so the handshake is sent by connect().
autoInitialize == TRUE

\* ------------------------------------------------------------ the bridge
\* the fields of a SloopBridge that its methods read and write, as one value
\* (with the promises its methods hand out and await).
Bridge ==
  [process |-> process, connected |-> connected, messageId |-> messageId,
   pendingRequests |-> pendingRequests, timers |-> timers, calls |-> calls,
   connectPromise |-> connectPromise, session |-> session, killed |-> killed]

Commit(b) ==
  /\ process' = b.process
  /\ connected' = b.connected
  /\ messageId' = b.messageId
  /\ pendingRequests' = b.pendingRequests
  /\ timers' = b.timers
  /\ calls' = b.calls
  /\ connectPromise' = b.connectPromise
  /\ session' = b.session
  /\ killed' = b.killed

Min(S) == CHOOSE x \in S : \A y \in S : x <= y

\* method.includes('analyze'), over the methods the bridge sends.
IncludesAnalyze(method) == method \in {"analysis/analyzeFilesAndTrack"}

\* a deadline that is the control-class one for every method.
timeoutMs_AlwaysControl(method) == ControlTimeoutMs

timeoutMs(method) ==
  IF IncludesAnalyze(method) THEN AnalysisTimeoutMs ELSE ControlTimeoutMs

\* `Request timeout after ${timeoutMs/1000}s: ${method}`
TimeoutText(method) ==
  (IF timeoutMs(method) = 60000 THEN "Request timeout after 60s: "
   ELSE "Request timeout after 30s: ") \o method

\* connect(): the then/catch on initialize().
initializeSettled(b, id) ==
  LET p == b.calls[id].proc
      current == p = Len(b.connectPromise) /\ b.session = "Handshaking"
  IN IF b.calls[id].state = "resolved"
     THEN [b EXCEPT !.connectPromise[p] = IF @ = "pending" THEN "resolved" ELSE @,
                    !.session = IF current THEN "Ready" ELSE @]
     ELSE [b EXCEPT !.connected = FALSE,
                    !.connectPromise[p] = IF @ = "pending" THEN "rejected" ELSE @,
                    !.session = IF current THEN "Disconnected" ELSE @]

\* a disconnect() that goes on after the await without kill() and without
\* clearing the handle.
disconnectResumed_KeepsHandle(b, id) ==
  [b EXCEPT !.connected = FALSE, !.calls[id].after = "done"]

\* disconnect(): the code after `await this.sendRequest('shutdown')`.
disconnectResumed(b, id) ==
  IF b.process = 0
  THEN [b EXCEPT !.calls[id].after = "threw"]
  ELSE [b EXCEPT !.killed = @ \cup {b.process},
                 !.process = 0,
                 !.connected = FALSE,
                 !.session = "Disconnected",
                 !.calls[id].after = "done"]

\* pending.resolve(value) / pending.reject(new Error(value)): a promise
\* settles once; the code awaiting it then runs.
settle(b, id, state, value) ==
  LET b1 == [b EXCEPT !.calls[id].settles = @ + 1]
  IN IF b.calls[id].state # "pending" THEN b1
     ELSE LET b2 == [b1 EXCEPT !.calls[id].state = state, !.calls[id].value = value]
          IN CASE b.calls[id].owner = "connect" -> initializeSettled(b2, id)
               [] b.calls[id].owner = "disconnect" -> disconnectResumed(b2, id)
               [] OTHER -> b2

RECURSIVE rejectEach(_, _, _)
rejectEach(b, ids, reason) ==
  IF ids = {} THEN b
  ELSE LET id == Min(ids)
       IN rejectEach(settle([b EXCEPT !.timers = @ \ {id}], id, "rejected", reason),
                     ids \ {id}, reason)

\* rejectAllPending without clearTimeout(pending.timeout).
rejectAllPending_NoClearTimeout(b, reason) ==
  [rejectEach(b, b.pendingRequests, reason) EXCEPT !.pendingRequests = {},
                                                   !.timers = b.timers]

rejectAllPending(b, reason) ==
  [rejectEach(b, b.pendingRequests, reason) EXCEPT !.pendingRequests = {}]

Frame(kind, id, body, to) == [kind |-> kind, id |-> id, body |-> body, to |-> to]

\* sendRequest that writes the request without arming the deadline timer.
sendRequest_NoTimer(b, method, owner, p) ==
  IF ~b.connected \/ b.process = 0
  THEN [b |-> b, thrown |-> NotConnected, wire |-> <<>>]
  ELSE LET id == b.messageId + 1
       IN [b |-> [b EXCEPT !.messageId = id,
                           !.pendingRequests = @ \cup {id},
                           !.calls = Append(@, [method |-> method, owner |-> owner,
                                                proc |-> p, timeoutMs |-> 0,
                                                state |-> "pending", value |-> Undefined,
                                                settles |-> 0, after |-> "",
                                                by |-> [id |-> Undefined, method |-> Undefined,
                                                        result |-> Undefined,
                                                        error |-> NoError]])],
           thrown |-> "",
           wire |-> <<Frame("request", String(id), method, b.process)>>]

\* sendRequest(method): owner is who awaits the promise ("client",
\* "connect" for initialize, "disconnect" for shutdown). A call record keeps
\* the promise (state, value, settles: how often resolve/reject was invoked),
\* the response that settled it (by) and how the awaiting disconnect() ended.
sendRequest(b, method, owner, p) ==
  IF ~b.connected \/ b.process = 0
  THEN [b |-> b, thrown |-> NotConnected, wire |-> <<>>]
  ELSE LET id == b.messageId + 1
       IN [b |-> [b EXCEPT !.messageId = id,
                           !.timers = @ \cup {id},
                           !.pendingRequests = @ \cup {id},
                           !.calls = Append(@, [method |-> method, owner |-> owner,
                                                proc |-> p, timeoutMs |-> timeoutMs(method),
                                                state |-> "pending", value |-> Undefined,
                                                settles |-> 0, after |-> "",
                                                by |-> NoResponse])],
           thrown |-> "",
           wire |-> <<Frame("request", String(id), method, b.process)>>]

sendNotification(b, method) ==
  IF ~b.connected \/ b.process = 0
  THEN [thrown |-> NotConnected, wire |-> <<>>]
  ELSE [thrown |-> "", wire |-> <<Frame("notification", Undefined, method, b.process)>>]

sendResponse(b, id, result) ==
  IF ~b.connected \/ b.process = 0 THEN <<>>
  ELSE <<Frame("response", id, result, b.process)>>

\* the result each callback answers with, by its top-level key.
handleClientRequest(b, request) ==
  CASE request.method = "listFiles" -> sendResponse(b, request.id, "files")
    [] request.method = "getBaseDir" -> sendResponse(b, request.id, "path")
    [] request.method = "getFileExclusions" ->
         sendResponse(b, request.id, "fileExclusionPatterns")
    [] request.method = "getInferredAnalysisProperties" ->
         sendResponse(b, request.id, "properties")
    [] OTHER -> sendResponse(b, request.id, "{}")

\* a lookup that takes responses to arrive in the order of the requests.
PendingKey_Oldest(b, id) ==
  IF b.pendingRequests # {} THEN Min(b.pendingRequests) ELSE 0

\* this.pendingRequests.has(message.id): the keys are the strings String(k).
PendingKey(b, id) ==
  IF \E k \in b.pendingRequests : String(k) = id
  THEN CHOOSE k \in b.pendingRequests : String(k) = id
  ELSE 0

handleMessage(b, message) ==
  IF Truthy(message.id) /\ Truthy(message.method)
  THEN [b |-> b, kind |-> "request", wire |-> handleClientRequest(b, message),
        emitted |-> <<>>]
  ELSE IF Truthy(message.id) /\ ~Truthy(message.method)
  THEN LET k == PendingKey(b, message.id)
       IN IF k = 0
          THEN [b |-> b, kind |-> "response", wire |-> <<>>, emitted |-> <<>>]
          ELSE LET b1 == [b EXCEPT !.timers = @ \ {k}, !.pendingRequests = @ \ {k}]
                   b2 == [b1 EXCEPT !.calls[k].by = message]
               IN [b |-> IF message.error.present
                         THEN settle(b2, k, "rejected",
                                     IF Truthy(message.error.message)
                                     THEN message.error.message ELSE RpcErrorDefault)
                         ELSE settle(b2, k, "resolved", message.result),
                   kind |-> "response", wire |-> <<>>, emitted |-> <<>>]
  ELSE IF ~Truthy(message.id) /\ Truthy(message.method)
  THEN [b |-> b, kind |-> "notification", wire |-> <<>>,
        emitted |-> IF message.method = "log" THEN <<"notification", "log">>
                    ELSE <<"notification">>]
  ELSE [b |-> b, kind |-> "none", wire |-> <<>>, emitted |-> <<>>]

\* what a turn did, as its caller and the child's stdin see it: the error
\* thrown, the frames written, the events emitted, the routing decision
\* (kind) or the state of the promise returned. The call-lifecycle
\* specification runs with this record switched off.
Unobserved == [op |-> "off", thrown |-> "", wire |-> <<>>, emitted |-> <<>>, kind |-> ""]

Last(op, thrown, wire, emitted, kind) ==
  IF last = Unobserved THEN Unobserved
  ELSE [op |-> op, thrown |-> thrown, wire |-> wire, emitted |-> emitted, kind |-> kind]

\* ----------------------------------------------------------- the actions
Bridge0 ==
  /\ process = 0
  /\ connected = FALSE
  /\ messageId = 0
  /\ pendingRequests = {}
  /\ timers = {}
  /\ calls = <<>>
  /\ procs = <<>>
  /\ connectPromise = <<>>
  /\ session = "Disconnected"
  /\ killed = {}

\* ------------------------------------------------------------ the files
\* A path: the segments of its directory, its base name and its extension.
Path(dir, base, ext) == [dir |-> dir, base |-> base, ext |-> ext]

\* process.cwd()
Cwd == <<"cwd">>

\* dirname(filePath)
dirname(filePath) == filePath.dir

\* the user's source files: two in the working directory, one under its
\* src directory, one in another project.
UserFiles ==
  {Path(Cwd, "a", "js"), Path(Cwd, "e", "tsx"), Path(<<"cwd", "src">>, "b", "ts"),
   Path(<<"other">>, "d", "js")}

\* the file the quick-fix handlers work on.
FixFile == Path(Cwd, "a", "js")

Roots == {<<"cwd">>, <<"cwd", "src">>, <<"other">>}

\* `scope-${hash}`: the first 8 hex digits of the root's md5, which differ
\* for the roots here.
ScopeIdOf(projectRoot) ==
  CASE projectRoot = <<"cwd">> -> "scope-1"
    [] projectRoot = <<"cwd", "src">> -> "scope-2"
    [] projectRoot = <<"other">> -> "scope-3"

\* no tool call yet: the file has none of its fixes applied, the backend
\* has never been told of it.
Idle == [name |-> "idle", pc |-> "idle", awaits |-> 0, log |-> <<>>, fixed |-> FALSE]

Server0 ==
  /\ scopeMap = [projectRoot \in Roots |-> Undefined]
  /\ disk = 0
  /\ tool = Idle
  /\ backend = [opened |-> FALSE,
                registry |-> [known |-> FALSE, content |-> 0, isUserDefined |-> FALSE],
                inbox |-> <<>>, jobs |-> {}]
  /\ analysed = {}
  /\ messageBuffer = <<>>
  /\ stream = <<>>
  /\ frames = <<>>
  /\ fed = 0
  /\ routed = <<>>
  /\ registered = <<>>
  /\ responses = <<>>
  /\ files = UserFiles
  /\ awaiting = {}

\* no apply_all_quick_fixes loop is under way.
NoBatch == [pc |-> "idle", rawIssues |-> <<>>, sortedIssues |-> <<>>, appliedFixes |-> <<>>]

Host0 ==
  /\ batch = NoBatch
  /\ installed = TRUE
  /\ writable = TRUE
  /\ main = "no"
  /\ results = <<>>
  /\ sent = <<>>

Init ==
  /\ Bridge0
  /\ Server0
  /\ Host0
  /\ last = Unobserved

InitObserved ==
  /\ Bridge0
  /\ Server0
  /\ Host0
  /\ last = [op |-> "new", thrown |-> "", wire |-> <<>>, emitted |-> <<>>, kind |-> ""]

\* connect()
Connect ==
  IF connected
  THEN /\ last' = Last("connect", "", <<>>, <<>>, "resolved")
       /\ UNCHANGED <<process, connected, messageId, pendingRequests, timers, calls,
                      procs, connectPromise, session, killed>>
  ELSE /\ Len(procs) < MaxProcs
       /\ autoInitialize => messageId < MaxMessageId
       /\ LET p == Len(procs) + 1
              b1 == [Bridge EXCEPT
                       !.process = p,
                       !.connected = TRUE,
                       !.connectPromise =
                          Append(@, IF autoInitialize THEN "pending" ELSE "resolved"),
                       !.session = IF autoInitialize THEN "Handshaking" ELSE "Ready"]
              r == sendRequest(b1, "initialize", "connect", p)
          IN /\ procs' = Append(procs, "running")
             /\ Commit(IF autoInitialize THEN r.b ELSE b1)
             /\ last' = Last("connect", "",
                             IF autoInitialize THEN r.wire ELSE <<>>, <<>>,
                             IF autoInitialize THEN "pending" ELSE "resolved")

\* a caller's sendRequest(method, params) (analyzeFilesAndTrack, getRuleDetails)
SendRequest(method) ==
  /\ (connected /\ process # 0) => messageId < MaxMessageId
  /\ LET r == sendRequest(Bridge, method, "client", 0)
     IN /\ Commit(r.b)
        /\ last' = Last("sendRequest", r.thrown, r.wire, <<>>, "")
  /\ UNCHANGED procs

\* a caller's sendNotification(method, params)
SendNotification(method) ==
  /\ LET r == sendNotification(Bridge, method)
     IN last' = Last("sendNotification", r.thrown, r.wire, <<>>, "")
  /\ UNCHANGED <<process, connected, messageId, pendingRequests, timers, calls, procs,
                 connectPromise, session, killed>>

\* stdout 'data' of a live child carrying one decoded frame.
Receive(message) ==
  /\ \E p \in 1..Len(procs) : procs[p] = "running"
  /\ LET r == handleMessage(Bridge, message)
     IN /\ Commit(r.b)
        /\ last' = Last("handleMessage", "", r.wire, r.emitted, r.kind)
  /\ UNCHANGED procs

\* a deadline handler without this.pendingRequests.delete(id).
Timeout_KeepsEntry(id) ==
  /\ id \in timers
  /\ Commit(settle([Bridge EXCEPT !.timers = @ \ {id}],
                   id, "rejected", TimeoutText(calls[id].method)))
  /\ last' = Last("timeout", "", <<>>, <<>>, "")
  /\ UNCHANGED procs

\* a deadline handler that fails every outstanding call.
Timeout_RejectsAll(id) ==
  /\ id \in timers
  /\ Commit(rejectAllPending(Bridge, TimeoutText(calls[id].method)))
  /\ last' = Last("timeout", "", <<>>, <<>>, "")
  /\ UNCHANGED procs

\* the setTimeout callback of request id.
Timeout(id) ==
  /\ id \in timers
  /\ Commit(settle([Bridge EXCEPT !.timers = @ \ {id}, !.pendingRequests = @ \ {id}],
                   id, "rejected", TimeoutText(calls[id].method)))
  /\ last' = Last("timeout", "", <<>>, <<>>, "")
  /\ UNCHANGED procs

\* the child's 'error' event (it could not be spawned, killed or written
\* to): reject(error) of the connect() that spawned it.
ProcessError(p) ==
  /\ p \in 1..Len(procs)
  /\ procs[p] = "running"
  /\ connectPromise[p] = "pending"
  /\ connectPromise' = [connectPromise EXCEPT ![p] = "rejected"]
  /\ last' = Last("error", "", <<>>, <<>>, "")
  /\ UNCHANGED <<process, connected, messageId, pendingRequests, timers, calls, procs,
                 session, killed>>

\* the child's 'close' event.
ProcessClose(p) ==
  /\ p \in 1..Len(procs)
  /\ procs[p] # "closed"
  /\ procs' = [procs EXCEPT ![p] = "closed"]
  /\ Commit(rejectAllPending(
              [Bridge EXCEPT !.connected = FALSE,
                             !.session = IF p = Len(procs) THEN "Disconnected" ELSE @],
              ProcessClosed))
  /\ last' = Last("close", "", <<>>, <<"disconnected">>, "")

\* disconnect()
Disconnect ==
  /\ (connected /\ process # 0) => messageId < MaxMessageId
  /\ IF process = 0
     THEN /\ Commit([Bridge EXCEPT !.connected = FALSE])
          /\ last' = Last("disconnect", "", <<>>, <<>>, "resolved")
     ELSE LET r == sendRequest(Bridge, "shutdown", "disconnect", 0)
          IN IF r.thrown # ""
             THEN /\ Commit([Bridge EXCEPT !.killed = @ \cup {process},
                                           !.process = 0,
                                           !.connected = FALSE,
                                           !.session = "Disconnected"])
                  /\ last' = Last("disconnect", "", <<>>, <<>>, "resolved")
             ELSE /\ Commit(r.b)
                  /\ last' = Last("disconnect", "", r.wire, <<>>, "pending")
  /\ UNCHANGED procs

\* the frames of the call-lifecycle specification: for every id a success
\* response and an error response with a message, one error response
\* without a message, one callback request and one notification.
CallMessages ==
  {m \in Messages :
     \/ /\ m.method = Undefined
        /\ m.id \notin {Undefined, "n0", ""}
        /\ \/ ~m.error.present
           \/ m.error.message = "boom"
           \/ m.error.present /\ m.error.message = Undefined /\ m.id = "s2"
     \/ m.id = "s1" /\ m.method = "listFiles"
     \/ m.id = Undefined /\ m.method = "log"}

Step(msgs, methods) ==
  /\ \/ Connect
     \/ \E method \in methods : SendRequest(method)
     \/ \E method \in NotificationMethods : SendNotification(method)
     \/ \E message \in msgs : Receive(message)
     \/ \E id \in 1..MaxMessageId : Timeout(id)
     \/ \E p \in 1..MaxProcs : ProcessError(p)
     \/ \E p \in 1..MaxProcs : ProcessClose(p)
     \/ Disconnect
  /\ UNCHANGED <<fixvars, framevars, scopevars, hostvars>>

Next == Step(CallMessages, {"analysis/analyzeFilesAndTrack"})

Spec == Init /\ [][Next]_vars

\* the routing specification: every frame of Messages and every method,
\* fewer calls.
RouterNext ==
  /\ Step(Messages, ClientMethods)
  /\ messageId' <= RouterMaxId
  /\ Len(procs') <= RouterMaxProcs

SpecRouter == InitObserved /\ [][RouterNext]_vars

\* the call lifecycle with what each turn did on record.
ObsNext ==
  /\ Next
  /\ messageId' <= ObsMaxId
  /\ Len(procs') <= ObsMaxProcs

SpecObserved == InitObserved /\ [][ObsNext]_vars

\* timers fire: the event loop runs every armed setTimeout callback.
FairNext ==
  /\ Next
  /\ messageId' <= FairMaxId
  /\ Len(procs') <= FairMaxProcs

FairSpec ==
  /\ Init
  /\ [][FairNext]_vars
  /\ \A id \in 1..FairMaxId : WF_vars(Timeout(id) /\ UNCHANGED <<fixvars, framevars, scopevars, hostvars>>)

\* ------------------------------------------- the tool handlers (index.ts)
\* The bridge, the server's module state and the backend, as one value that
\* a handler's code transforms.
World ==
  [b |-> Bridge, scopeMap |-> scopeMap, disk |-> disk, tool |-> tool,
   backend |-> backend, analysed |-> analysed, registered |-> registered]

CommitWorld(w) ==
  /\ Commit(w.b)
  /\ scopeMap' = w.scopeMap
  /\ disk' = w.disk
  /\ tool' = w.tool
  /\ backend' = w.backend
  /\ analysed' = w.analysed
  /\ registered' = w.registered

\* a result computed from an empty file set.
EmptyFileSet == -1

\* how the backend treats the file. It reads a file it was never told about
\* from disk and keeps what it read; afterwards it serves what it keeps. A
\* file listed as not user-defined is left out of the analysis.
backendAnalyze(bk, file) ==
  IF ~bk.registry.known
  THEN [seen |-> file,
        bk |-> [bk EXCEPT !.registry =
                  [known |-> TRUE, content |-> file, isUserDefined |-> TRUE]]]
  ELSE [seen |-> IF bk.registry.isUserDefined THEN bk.registry.content
                 ELSE EmptyFileSet,
        bk |-> bk]

\* the backend takes one notification out of its queue: didOpenFile marks
\* the file open; didUpdateFileSystem replaces what it keeps of an open file
\* when the entry carries content, and is ignored otherwise.
backendProcess(bk) ==
  LET n == Head(bk.inbox)
      bk1 == [bk EXCEPT !.inbox = Tail(@)]
  IN IF n.method = "file/didOpenFile" THEN [bk1 EXCEPT !.opened = TRUE]
     ELSE IF bk.opened /\ n.dto.hasContent
     THEN [bk1 EXCEPT !.registry = [known |-> TRUE, content |-> n.dto.content,
                                    isUserDefined |-> n.dto.isUserDefined]]
     ELSE bk1

\* the settling delay is long enough: the backend has worked off what it
\* was sent.
BackendSettled(bk) == bk.inbox = <<>>

\* the findings with a quick fix that a result lists.
IssuesOf(seen) ==
  IF seen = EmptyFileSet \/ seen >= FixableIssues THEN 0 ELSE FixableIssues - seen

Logged(w, ev, content) ==
  [w EXCEPT !.tool.log = Append(@, [ev |-> ev, content |-> content])]

\* `let sloopBridge: SloopBridge | null = null`: ensureSloopBridge assigns it
\* and calls connect() in one turn, so it is null until the first connect().
sloopBridgeIsNull(b) == Len(b.connectPromise) = 0

\* a getOrCreateScope without scopeMap.set(projectRoot, newScopeId).
getOrCreateScope_NoInsert(w, filePath) ==
  LET projectRoot == dirname(filePath)
      scopeId == w.scopeMap[projectRoot]
      newScopeId == ScopeIdOf(projectRoot)
      r == sendNotification(w.b, "configuration/didAddConfigurationScopes")
  IN IF Truthy(scopeId) THEN [w |-> w, thrown |-> "", scopeId |-> scopeId]
     ELSE IF sloopBridgeIsNull(w.b)
     THEN [w |-> w, thrown |-> "", scopeId |-> newScopeId]
     ELSE IF r.thrown # "" THEN [w |-> w, thrown |-> r.thrown, scopeId |-> Undefined]
     ELSE [w |-> [w EXCEPT !.registered = Append(@, newScopeId)],
           thrown |-> "", scopeId |-> newScopeId]

\* getOrCreateScope(filePath)
getOrCreateScope(w, filePath) ==
  LET projectRoot == dirname(filePath)
      scopeId == w.scopeMap[projectRoot]
      newScopeId == ScopeIdOf(projectRoot)
      r == sendNotification(w.b, "configuration/didAddConfigurationScopes")
  IN IF Truthy(scopeId) THEN [w |-> w, thrown |-> "", scopeId |-> scopeId]
     ELSE IF sloopBridgeIsNull(w.b)
     THEN [w |-> [w EXCEPT !.scopeMap[projectRoot] = newScopeId],
           thrown |-> "", scopeId |-> newScopeId]
     ELSE IF r.thrown # "" THEN [w |-> w, thrown |-> r.thrown, scopeId |-> Undefined]
     ELSE [w |-> [w EXCEPT !.scopeMap[projectRoot] = newScopeId,
                           !.registered = Append(@, newScopeId)],
           thrown |-> "", scopeId |-> newScopeId]

\* bridge.analyzeFilesAndTrack(scopeId, [filePath]): the request reaches the
\* backend, which computes its result from what it holds at that moment.
analyzeFilesAndTrack(w) ==
  LET r == sendRequest(w.b, "analysis/analyzeFilesAndTrack", "client", 0)
      id == r.b.messageId
      a == backendAnalyze(w.backend, w.disk)
  IN IF r.thrown # "" THEN [w |-> w, thrown |-> r.thrown]
     ELSE [w |-> Logged([w EXCEPT !.b = r.b,
                                  !.backend = [a.bk EXCEPT !.jobs = @ \cup
                                                 {[id |-> id, seen |-> a.seen]}],
                                  !.analysed = @ \cup
                                     {[id |-> id, seen |-> a.seen, disk |-> w.disk,
                                       afterFix |-> w.tool.fixed]},
                                  !.tool.awaits = id],
                        "analyze", w.disk),
           thrown |-> ""]

\* the changed-file entry of file/didUpdateFileSystem without the flag.
clientFileDto_NotUserDefined(content) ==
  [content |-> content, hasContent |-> TRUE, isUserDefined |-> FALSE]

\* the changed-file entry of file/didUpdateFileSystem.
clientFileDto(content) ==
  [content |-> content, hasContent |-> TRUE, isUserDefined |-> TRUE]

\* the two notifications in the other order.
notifyFileSystemChanged_UpdateFirst(w) ==
  LET r == sendNotification(w.b, "file/didUpdateFileSystem")
      update == [method |-> "file/didUpdateFileSystem", dto |-> clientFileDto(w.disk)]
      open == [method |-> "file/didOpenFile", dto |-> clientFileDto(w.disk)]
  IN IF r.thrown # "" THEN w
     ELSE Logged(Logged([w EXCEPT !.backend.inbox = @ \o <<update, open>>],
                        "file/didUpdateFileSystem", w.disk),
                 "file/didOpenFile", w.disk)

\* notifyFileSystemChanged(filePath, configScopeId): didOpenFile, then the
\* file is read and sent in didUpdateFileSystem; an error is caught, and
\* what follows the throwing call is not run.
notifyFileSystemChanged(w) ==
  LET opened == sendNotification(w.b, "file/didOpenFile")
      fileContent == w.disk
      updated == sendNotification(w.b, "file/didUpdateFileSystem")
      open == [method |-> "file/didOpenFile", dto |-> clientFileDto(fileContent)]
      update == [method |-> "file/didUpdateFileSystem",
                 dto |-> clientFileDto(fileContent)]
  IN IF opened.thrown # "" THEN w
     ELSE LET w1 == Logged([w EXCEPT !.backend.inbox = Append(@, open)],
                           "file/didOpenFile", fileContent)
          IN IF updated.thrown # "" THEN w1
             ELSE Logged([w1 EXCEPT !.backend.inbox = Append(@, update)],
                         "file/didUpdateFileSystem", fileContent)

\* the handler ends: its result or its error goes to the MCP client.
returned(w, fixed) ==
  [w EXCEPT !.tool = [Idle EXCEPT !.fixed = w.tool.fixed \/ fixed]]

\* a handler up to its first await of the backend: ensureSloopBridge(),
\* getOrCreateScope(filePath), bridge.analyzeFilesAndTrack(...).
started(w, name) ==
  LET s == getOrCreateScope(w, FixFile)
      a == analyzeFilesAndTrack([s.w EXCEPT !.tool.name = name,
                                            !.tool.pc = "analysis"])
  IN IF s.thrown # "" THEN returned(s.w, FALSE)
     ELSE IF a.thrown # "" THEN returned(s.w, FALSE)
     ELSE a.w

\* writeFileSync(filePath, fileContent) with `fixes` quick fixes applied to
\* what was read from disk, then the cache invalidation and the timer.
fixesWritten(w, fixes) ==
  LET w1 == Logged([w EXCEPT !.disk = @ + fixes], "write", w.disk + fixes)
      w2 == notifyFileSystemChanged(w1)
  IN [w2 EXCEPT !.tool.pc = "settle", !.tool.awaits = 0]

\* the handler's code after the await of call id, once the call has settled.
resumed(w, id) ==
  LET call == w.b.calls[id]
      found == IssuesOf(call.value)
  IN IF w.tool.awaits # id THEN w
     ELSE IF call.state = "rejected" THEN returned(w, FALSE)
     ELSE IF w.tool.name = "analyze_file" THEN returned(w, FALSE)
     ELSE IF w.tool.pc = "reanalysis" THEN returned(w, TRUE)
     ELSE IF found = 0 THEN returned(w, FALSE)
     ELSE IF w.tool.name = "apply_quick_fix" THEN fixesWritten(w, 1)
     ELSE fixesWritten(w, found)

\* a tool call of the MCP client; main() has awaited ensureSloopBridge(),
\* the server handles one call at a time.
ToolCall(name) ==
  /\ tool.name = "idle"
  /\ Len(procs) = 1
  /\ connectPromise[1] # "pending"
  /\ messageId + (IF name = "apply_all_quick_fixes" THEN 2 ELSE 1) <= FixMaxId
  /\ CommitWorld(started(World, name))
  /\ UNCHANGED <<procs, last>>

\* the backend answers call id with the result it computed.
BackendAnswer(id) ==
  /\ Len(procs) = 1
  /\ procs[1] = "running"
  /\ \E job \in backend.jobs :
       /\ job.id = id
       /\ LET message == [id |-> String(id), method |-> Undefined,
                          result |-> job.seen, error |-> NoError]
              r == handleMessage(Bridge, message)
          IN CommitWorld(resumed([World EXCEPT !.b = r.b,
                                               !.backend.jobs = @ \ {job}], id))
  /\ UNCHANGED <<procs, last>>

\* the backend works off one notification.
BackendProcess ==
  /\ backend.inbox # <<>>
  /\ backend' = backendProcess(backend)
  /\ UNCHANGED <<process, connected, messageId, pendingRequests, timers, calls, procs,
                 connectPromise, session, killed, last, scopeMap, disk, tool, analysed,
                 registered>>

\* setTimeout(resolve, 500) of the two fix handlers fires.
SettleDelay ==
  /\ tool.pc = "settle"
  /\ BackendSettled(backend)
  /\ LET w == Logged(World, "delay", SettleDelayMs)
         a == analyzeFilesAndTrack([w EXCEPT !.tool.pc = "reanalysis"])
     IN CommitWorld(IF tool.name = "apply_quick_fix" THEN returned(w, TRUE)
                    ELSE IF a.thrown # "" THEN returned(w, FALSE)
                    ELSE a.w)
  /\ UNCHANGED <<procs, last>>

\* the deadline of an analysis call passes before the backend answers.
AnalysisTimeout(id) ==
  /\ id \in timers
  /\ calls[id].owner = "client"
  /\ LET b == settle([Bridge EXCEPT !.timers = @ \ {id}, !.pendingRequests = @ \ {id}],
                     id, "rejected", TimeoutText(calls[id].method))
     IN CommitWorld(resumed([World EXCEPT !.b = b], id))
  /\ UNCHANGED <<procs, last>>

\* the backend process exits.
BackendExit ==
  /\ ProcessClose(1)
  /\ LET w == [World EXCEPT !.b = Bridge', !.backend.inbox = <<>>, !.backend.jobs = {}]
     IN /\ scopeMap' = scopeMap
        /\ registered' = registered
        /\ disk' = disk
        /\ analysed' = analysed
        /\ backend' = w.backend
        /\ tool' = IF tool.awaits # 0 THEN returned(w, FALSE).tool ELSE tool

\* main(): ensureSloopBridge() creates the bridge once and connects it.
ServerStart ==
  /\ Len(procs) = 0
  /\ Connect
  /\ UNCHANGED fixvars

\* the backend answers the handshake.
Initialized ==
  /\ 1 \in pendingRequests
  /\ Receive([id |-> "s1", method |-> Undefined, result |-> ResultFor("s1"),
              error |-> NoError])
  /\ UNCHANGED fixvars

\* ------------------------------------------- the callbacks' answers
\* /\.(js|ts|py|java|html|css|php|go|rb)$/
SourceExt == {"js", "ts", "py", "java", "html", "css", "php", "go", "rb"}

\* readFileSync(path, 'utf-8'): the quick-fix file holds what was written
\* to it, the other files never change.
readFileSync(path, content) == IF path = FixFile THEN content ELSE 0

\* a listFiles descriptor without the flag.
fileDto_NotUserDefined(fullPath, configScopeId, content) ==
  [fsPath |-> fullPath, configScopeId |-> configScopeId, content |-> content,
   hasContent |-> TRUE, isUserDefined |-> FALSE]

\* fileDtos.push({...}) of the listFiles callback.
fileDto(fullPath, configScopeId, content) ==
  [fsPath |-> fullPath, configScopeId |-> configScopeId, content |-> content,
   hasContent |-> TRUE, isUserDefined |-> TRUE]

\* the listFiles callback: the source files directly in process.cwd() and
\* those anywhere below its src directory, each with the scope id of the
\* request.
listFiles(onDisk, content, configScopeId) ==
  LET baseDir == Cwd
      listed == {f \in onDisk :
                   /\ f.ext \in SourceExt
                   /\ \/ f.dir = baseDir
                      \/ /\ Len(f.dir) > Len(baseDir)
                         /\ SubSeq(f.dir, 1, Len(baseDir)) = baseDir
                         /\ f.dir[Len(baseDir) + 1] = "src"}
  IN {fileDto(f, configScopeId, readFileSync(f, content)) : f \in listed}

\* the getBaseDir callback: { path: basePath }
getBaseDir(configScopeId) == Cwd

\* the backend asks for the files of a scope it was told of.
ListFiles(configScopeId) ==
  /\ Len(responses) < MaxCallbacks
  /\ \E i \in 1..Len(registered) : registered[i] = configScopeId
  /\ connected
  /\ process # 0
  /\ Receive([id |-> "s1", method |-> "listFiles", result |-> Undefined,
              error |-> NoError])
  /\ responses' = Append(responses,
                         [method |-> "listFiles", configScopeId |-> configScopeId,
                          files |-> listFiles(files, disk, configScopeId),
                          path |-> <<>>])
  /\ UNCHANGED <<fixvars, files, awaiting>>

\* the backend asks for the base directory of a scope it was told of.
GetBaseDir(configScopeId) ==
  /\ Len(responses) < MaxCallbacks
  /\ \E i \in 1..Len(registered) : registered[i] = configScopeId
  /\ connected
  /\ process # 0
  /\ Receive([id |-> "s1", method |-> "getBaseDir", result |-> Undefined,
              error |-> NoError])
  /\ responses' = Append(responses,
                         [method |-> "getBaseDir", configScopeId |-> configScopeId,
                          files |-> {}, path |-> getBaseDir(configScopeId)])
  /\ UNCHANGED <<fixvars, files, awaiting>>

ScopeIds == {ScopeIdOf(projectRoot) : projectRoot \in Roots}

FixNext ==
  \/ ServerStart /\ UNCHANGED <<framevars, scopevars, hostvars>>
  \/ Initialized /\ UNCHANGED <<framevars, scopevars, hostvars>>
  \/ \E name \in {"analyze_file", "apply_quick_fix", "apply_all_quick_fixes"} :
       ToolCall(name) /\ UNCHANGED <<framevars, scopevars, hostvars>>
  \/ \E id \in 1..FixMaxId : BackendAnswer(id) /\ UNCHANGED <<framevars, scopevars, hostvars>>
  \/ BackendProcess /\ UNCHANGED <<framevars, scopevars, hostvars>>
  \/ SettleDelay /\ UNCHANGED <<framevars, scopevars, hostvars>>
  \/ \E id \in 1..FixMaxId : AnalysisTimeout(id) /\ UNCHANGED <<framevars, scopevars, hostvars>>
  \/ BackendExit /\ UNCHANGED <<framevars, scopevars, hostvars>>
  \/ \E configScopeId \in ScopeIds : ListFiles(configScopeId) /\ UNCHANGED <<framevars, hostvars>>

SpecFix == Init /\ [][FixNext]_vars

\* ---------------------------------------- analyze_file, analyze_content
\* the languages and the fileName arguments of analyze_content that are
\* tried, and the values of Date.now().
Languages == {"javascript", "python"}

FileNames == {Undefined, "MyComponent.tsx", "a.js"}

Ticks == {1, 2}

\* languageExtMap[language] || '.txt'
languageExtMap(language) ==
  CASE language = "javascript" -> "js"
    [] language = "typescript" -> "ts"
    [] language = "python" -> "py"
    [] language = "java" -> "java"
    [] language = "go" -> "go"
    [] language = "php" -> "php"
    [] language = "ruby" -> "rb"
    [] OTHER -> "txt"

\* detectLanguage(filePath) of index.ts
detectLanguage(filePath) ==
  CASE filePath.ext \in {"js", "jsx"} -> "javascript"
    [] filePath.ext \in {"ts", "tsx"} -> "typescript"
    [] filePath.ext \in {"py", "java", "go", "php", "rb", "html", "css", "xml"} ->
         filePath.ext
    [] OTHER -> "unknown"

\* join(process.cwd(), fileName || `.sonarlint-tmp-${Date.now()}${ext}`)
tempFilePath(language, fileName, now) ==
  IF Truthy(fileName)
  THEN CASE fileName = "MyComponent.tsx" -> Path(Cwd, "MyComponent", "tsx")
         [] fileName = "a.js" -> Path(Cwd, "a", "js")
  ELSE Path(Cwd, <<".sonarlint-tmp-1", ".sonarlint-tmp-2">>[now], languageExtMap(language))

\* a handler suspended at `await bridge.analyzeFilesAndTrack(scopeId, [path])`.
Handler(id, configScopeId, filePath, temp) ==
  [id |-> id, configScopeId |-> configScopeId, filePath |-> filePath, temp |-> temp]

\* handleAnalyzeFile up to its await.
AnalyzeFile(filePath) ==
  /\ Len(procs) = 1
  /\ connectPromise[1] # "pending"
  /\ messageId < ScopeMaxId
  /\ filePath \in files
  /\ detectLanguage(filePath) # "unknown"
  /\ LET s == getOrCreateScope(World, filePath)
         r == sendRequest(s.w.b, "analysis/analyzeFilesAndTrack", "client", 0)
     IN IF s.thrown # "" \/ r.thrown # ""
        THEN /\ CommitWorld(s.w)
             /\ UNCHANGED awaiting
        ELSE /\ CommitWorld([s.w EXCEPT !.b = r.b])
             /\ awaiting' = awaiting \cup
                  {Handler(r.b.messageId, s.scopeId, filePath, FALSE)}
  /\ UNCHANGED <<procs, last, responses, files>>

\* handleAnalyzeContent up to its await; when a call throws, the finally
\* block unlinks the file at once.
AnalyzeContent(language, fileName, now) ==
  /\ Len(procs) = 1
  /\ connectPromise[1] # "pending"
  /\ messageId < ScopeMaxId
  /\ LET path == tempFilePath(language, fileName, now)
         s == getOrCreateScope(World, path)
         r == sendRequest(s.w.b, "analysis/analyzeFilesAndTrack", "client", 0)
     IN IF s.thrown # "" \/ r.thrown # ""
        THEN /\ CommitWorld(s.w)
             /\ files' = files \ {path}
             /\ UNCHANGED awaiting
        ELSE /\ CommitWorld([s.w EXCEPT !.b = r.b])
             /\ files' = files \cup {path}
             /\ awaiting' = awaiting \cup {Handler(r.b.messageId, s.scopeId, path, TRUE)}
  /\ UNCHANGED <<procs, last, responses>>

\* the handlers awaiting one of the calls ids go on: analyze_content
\* unlinks its file, both return.
Resumed(ids) ==
  /\ files' = files \ {h.filePath : h \in {g \in awaiting : g.id \in ids /\ g.temp}}
  /\ awaiting' = {h \in awaiting : h.id \notin ids}

\* the backend answers analysis call id.
AnalysisAnswered(id) ==
  /\ id \in pendingRequests
  /\ calls[id].owner = "client"
  /\ Receive([id |-> String(id), method |-> Undefined, result |-> ResultFor(String(id)),
              error |-> NoError])
  /\ Resumed({id})
  /\ UNCHANGED <<fixvars, responses>>

\* the deadline of analysis call id passes.
AnalysisExpired(id) ==
  /\ id \in pendingRequests
  /\ calls[id].owner = "client"
  /\ Timeout(id)
  /\ Resumed({id})
  /\ UNCHANGED <<fixvars, responses>>

\* the backend process exits: every pending call is rejected.
BackendClosed ==
  /\ ProcessClose(1)
  /\ Resumed(pendingRequests)
  /\ UNCHANGED <<fixvars, responses>>

ScopesNext ==
  \/ ServerStart /\ UNCHANGED <<framevars, scopevars, hostvars>>
  \/ Initialized /\ UNCHANGED <<framevars, scopevars, hostvars>>
  \/ \E filePath \in UserFiles : AnalyzeFile(filePath) /\ UNCHANGED <<framevars, hostvars>>
  \/ \E language \in Languages, fileName \in FileNames, now \in Ticks :
       AnalyzeContent(language, fileName, now) /\ UNCHANGED <<framevars, hostvars>>
  \/ \E id \in 1..ScopeMaxId : AnalysisAnswered(id) /\ UNCHANGED <<framevars, hostvars>>
  \/ \E id \in 1..ScopeMaxId : AnalysisExpired(id) /\ UNCHANGED <<framevars, hostvars>>
  \/ BackendClosed /\ UNCHANGED <<framevars, hostvars>>
  \/ \E configScopeId \in ScopeIds : ListFiles(configScopeId) /\ UNCHANGED <<framevars, hostvars>>
  \/ \E configScopeId \in ScopeIds : GetBaseDir(configScopeId) /\ UNCHANGED <<framevars, hostvars>>

SpecScopes == Init /\ [][ScopesNext]_vars

\* ------------------------------------------------------------ the framer
\* Bytes of the backend's stdout. "L" stands for the ASCII text
\* `Content-Length: `, a digit for the decimal length, "N" for the blank
\* line \r\n\r\n; "{" and "}" open and close a JSON object, "s1".."s9" is
\* the ASCII text of an id member, "a" one further ASCII character of the
\* object; "m1" "m2" are the two bytes of one non-ASCII character.
Digits == <<"1", "2", "3", "4", "5", "6", "7", "8", "9">>

IsDigit(u) == \E n \in 1..Len(Digits) : Digits[n] = u

\* parseInt(headerMatch[1])
parseInt(u) == CHOOSE n \in 1..Len(Digits) : Digits[n] = u

IdTokens == {String(i) : i \in 1..9}

\* data.toString(): the chunk decoded as UTF-8 into code units. A complete
\* two-byte sequence is one unit "M"; a lead byte cut off from its
\* continuation, and a continuation byte without its lead, become U+FFFD,
\* written "?".
RECURSIVE toString(_)
toString(data) ==
  IF data = <<>> THEN <<>>
  ELSE IF data[1] = "m1" /\ Len(data) >= 2 /\ data[2] = "m2"
  THEN <<"M">> \o toString(SubSeq(data, 3, Len(data)))
  ELSE IF data[1] \in {"m1", "m2"} THEN <<"?">> \o toString(Tail(data))
  ELSE <<data[1]>> \o toString(Tail(data))

\* this.messageBuffer.match(/Content-Length: (\d+)\r?\n\r?\n/): the index
\* of the first match, 0 when there is none.
HeaderAt(buffer, i) ==
  /\ i + 2 <= Len(buffer)
  /\ buffer[i] = "L"
  /\ IsDigit(buffer[i + 1])
  /\ buffer[i + 2] = "N"

headerMatch(buffer) ==
  IF \E i \in 1..Len(buffer) : HeaderAt(buffer, i)
  THEN Min({i \in 1..Len(buffer) : HeaderAt(buffer, i)})
  ELSE 0

\* JSON.parse(messageJson): an object with an id member; what follows the
\* id is the result, or, written "q", the member "method":"getBaseDir" of a
\* request. Anything else throws.
ParsesAsJson(json) ==
  /\ Len(json) >= 3
  /\ json[1] = "{"
  /\ json[Len(json)] = "}"
  /\ json[2] \in IdTokens
  /\ \/ \A i \in 3..(Len(json) - 1) : json[i] \in {"a", "M", "?"}
     \/ Len(json) = 4 /\ json[3] = "q"

JSONparse(json) ==
  IF Len(json) = 4 /\ json[3] = "q"
  THEN [id |-> json[2], method |-> "getBaseDir", result |-> Undefined, error |-> NoError]
  ELSE [id |-> json[2], method |-> Undefined,
        result |-> SubSeq(json, 3, Len(json) - 1), error |-> NoError]

\* processMessages(): the while loop, with the messages it hands to
\* handleMessage collected in out. contentLength counts code units of the
\* buffer from headerEnd on.
RECURSIVE processMessages(_, _)
processMessages(buffer, out) ==
  LET at == headerMatch(buffer)
      contentLength == parseInt(buffer[at + 1])
      headerEnd == at + 2
      messageEnd == headerEnd + contentLength
      messageJson == SubSeq(buffer, headerEnd + 1, messageEnd)
      rest == SubSeq(buffer, messageEnd + 1, Len(buffer))
  IN IF at = 0 THEN [messageBuffer |-> buffer, out |-> out]
     ELSE IF Len(buffer) < messageEnd THEN [messageBuffer |-> buffer, out |-> out]
     ELSE IF ParsesAsJson(messageJson)
     THEN processMessages(rest, Append(out, JSONparse(messageJson)))
     ELSE processMessages(rest, out)

\* handleMessage for each message, in order.
RECURSIVE handleEach(_, _)
handleEach(b, messages) ==
  IF messages = <<>> THEN b
  ELSE handleEach(handleMessage(b, Head(messages)).b, Tail(messages))

\* the frames that handling the messages writes to the child's stdin: each
\* message is handled by the bridge as the messages before it left it.
\* the answers written last first.
RECURSIVE answersOf_LastFirst(_, _)
answersOf_LastFirst(b, messages) ==
  IF messages = <<>> THEN <<>>
  ELSE LET r == handleMessage(b, Head(messages))
       IN answersOf_LastFirst(r.b, Tail(messages)) \o r.wire

RECURSIVE answersOf(_, _)
answersOf(b, messages) ==
  IF messages = <<>> THEN <<>>
  ELSE LET r == handleMessage(b, Head(messages))
       IN r.wire \o answersOf(r.b, Tail(messages))

\* `Content-Length: ${Buffer.byteLength(json)}\r\n\r\n${json}`
FrameOf(json) == <<"L", Digits[Len(json)], "N">> \o json

\* the payloads the backend writes: a response to call id whose result is
\* empty, holds an ASCII character or holds a non-ASCII one, and a payload
\* cut short, which is no JSON.
Payloads ==
  {<<"{", id, "}">> : id \in {"s1", "s2"}}
  \cup {<<"{", "s1", "a", "}">>, <<"{", "s1", "m1", "m2", "}">>, <<"{", "s1">>}

BackendWrites(json) ==
  /\ Len(procs) >= 1
  /\ procs[Len(procs)] = "running"
  /\ Len(frames) < MaxFrames
  /\ stream' = stream \o FrameOf(json)
  /\ frames' = Append(frames, json)
  /\ UNCHANGED <<process, connected, messageId, pendingRequests, timers, calls, procs,
                 connectPromise, session, killed, last, fixvars, messageBuffer, fed,
                 routed, scopevars, hostvars>>

\* stdout 'data' with the first n bytes the pipe holds.
Data(n) ==
  /\ n \in 1..Len(stream)
  /\ LET data == SubSeq(stream, 1, n)
         r == processMessages(messageBuffer \o toString(data), <<>>)
     IN /\ messageBuffer' = r.messageBuffer
        /\ routed' = routed \o r.out
        /\ Commit(handleEach(Bridge, r.out))
        /\ last' = Last("data", "", answersOf(Bridge, r.out), <<>>, "")
  /\ stream' = SubSeq(stream, n + 1, Len(stream))
  /\ fed' = fed + n
  /\ UNCHANGED <<procs, fixvars, frames, scopevars, hostvars>>

FramerNext ==
  \/ ServerStart /\ UNCHANGED <<framevars, scopevars, hostvars>>
  \/ \E json \in Payloads : BackendWrites(json)
  \/ \E n \in 1..(MaxFrames * 9) : Data(n)

SpecFramer == Init /\ [][FramerNext]_vars

\* the payloads of the ordering specification: the response to the
\* initialize call and getBaseDir requests of the backend, all ASCII.
StreamPayloads ==
  {<<"{", "s1", "}">>} \cup {<<"{", id, "q", "}">> : id \in {"s1", "s2"}}

\* the child's 'close' event: what the child had written and the bridge has
\* not read is gone with it. this.messageBuffer stays as it is. From here on
\* frames, routed and fed record the next child's output.
StreamClose(p) ==
  /\ ProcessClose(p)
  /\ stream' = <<>>
  /\ frames' = <<>>
  /\ routed' = <<>>
  /\ fed' = 0
  /\ UNCHANGED <<messageBuffer, fixvars, scopevars, hostvars>>

\* one child and its output.
StreamNext ==
  \/ Connect /\ UNCHANGED <<fixvars, framevars, scopevars, hostvars>>
  \/ \E json \in StreamPayloads : BackendWrites(json)
  \/ \E n \in 1..(MaxFrames * 9) : Data(n)

SpecStream == InitObserved /\ [][StreamNext]_vars

\* children that exit and are replaced.
RestartNext ==
  \/ StreamNext
  \/ \E p \in 1..MaxProcs : StreamClose(p)

SpecRestart == InitObserved /\ [][RestartNext]_vars

\* ------------------------------- apply_all_quick_fixes: the fixing loop
\* line numbers run from 1 to MaxLine; 0 stands for a field that is absent
\* (or zero): both are falsy to `||`.
MaxLine == 2

MaxIssues == 2

MaxFileEdits == 2

\* the text edits of one quick fix, over all its file edits.
MaxTextEdits == 2

\* sequences over S of length lo..hi
SeqsOf(S, lo, hi) == UNION {[1..n -> S] : n \in lo..hi}

RECURSIVE Flat(_)
Flat(lists) == IF lists = <<>> THEN <<>> ELSE Head(lists) \o Flat(Tail(lists))

\* quickFix.inputFileEdits: file edits, each with its textEdits.
QuickFixes ==
  {fileEdits \in SeqsOf(SeqsOf([startLine : 0..MaxLine], 0, MaxTextEdits), 1, MaxFileEdits) :
     Len(Flat(fileEdits)) <= MaxTextEdits}

\* the issues with a quick fix that the analysis may report.
Issues == [textRange : 0..MaxLine, startLine : {0, MaxLine + 1}, fileEdits : QuickFixes]

\* a.textRange?.startLine || a.startLine || 0
issueLine(issue) ==
  IF issue.textRange # 0 THEN issue.textRange
  ELSE IF issue.startLine # 0 THEN issue.startLine
  ELSE 0

\* a.range?.startLine || 0
editStart(edit) == IF edit.startLine # 0 THEN edit.startLine ELSE 0

\* [...xs].sort((a, b) => b.key - a.key): largest key first, elements of
\* equal key in their former order.
RECURSIVE sortDescending(_)
sortDescending(xs) ==
  IF xs = <<>> THEN <<>>
  ELSE LET top == CHOOSE k \in {xs[i].key : i \in 1..Len(xs)} :
                    \A i \in 1..Len(xs) : xs[i].key <= k
           first == Min({i \in 1..Len(xs) : xs[i].key = top})
       IN <<xs[first]>> \o
          sortDescending(SubSeq(xs, 1, first - 1) \o SubSeq(xs, first + 1, Len(xs)))

\* const sortedIssues = [...issuesWithQuickFixes].sort(...)
sortedIssues(issuesWithQuickFixes) ==
  LET keyed == [i \in 1..Len(issuesWithQuickFixes) |->
                  [key |-> issueLine(issuesWithQuickFixes[i]),
                   v |-> issuesWithQuickFixes[i]]]
      sorted == sortDescending(keyed)
  IN [i \in 1..Len(sorted) |-> sorted[i].v]

\* const sortedEdits = [...fileEdit.textEdits].sort(...)
sortedEdits(textEdits) ==
  LET keyed == [i \in 1..Len(textEdits) |->
                  [key |-> editStart(textEdits[i]), v |-> textEdits[i]]]
      sorted == sortDescending(keyed)
  IN [i \in 1..Len(sorted) |-> sorted[i].v]

\* for (const fileEdit of fileEdits) for (const edit of sortedEdits): the
\* edits of one quick fix in the order in which they are applied.
RECURSIVE editsApplied(_)
editsApplied(fileEdits) ==
  IF fileEdits = <<>> THEN <<>>
  ELSE sortedEdits(Head(fileEdits)) \o editsApplied(Tail(fileEdits))

\* the first analysis of apply_all_quick_fixes has reported these issues.
InitBatch ==
  /\ Bridge0
  /\ Server0
  /\ last = Unobserved
  /\ installed = TRUE
  /\ writable = TRUE
  /\ main = "no"
  /\ results = <<>>
  /\ sent = <<>>
  /\ \E rawIssues \in SeqsOf(Issues, 1, MaxIssues) :
       batch = [NoBatch EXCEPT !.pc = "found", !.rawIssues = rawIssues]

\* the issues are sorted for the loop.
SortIssues ==
  /\ batch.pc = "found"
  /\ batch' = [batch EXCEPT !.pc = "loop", !.sortedIssues = sortedIssues(batch.rawIssues)]

\* one pass of `for (const issue of sortedIssues)`: the first quick fix of
\* the issue is applied and the file written.
ApplyFix ==
  /\ batch.pc = "loop"
  /\ batch.sortedIssues # <<>>
  /\ LET issue == Head(batch.sortedIssues)
     IN batch' = [batch EXCEPT
                    !.sortedIssues = Tail(@),
                    !.appliedFixes = Append(@, [line |-> issueLine(issue),
                                                edits |-> editsApplied(issue.fileEdits)])]

BatchNext ==
  \/ SortIssues /\ UNCHANGED <<process, connected, messageId, pendingRequests, timers,
                               calls, procs, connectPromise, session, killed, last,
                               fixvars, framevars, scopevars, installed, writable,
                               main, results, sent>>
  \/ ApplyFix /\ UNCHANGED <<process, connected, messageId, pendingRequests, timers,
                             calls, procs, connectPromise, session, killed, last,
                             fixvars, framevars, scopevars, installed, writable,
                             main, results, sent>>

SpecBatch == InitBatch /\ [][BatchNext]_vars

\* ------------------------------------ the text edits of one file edit
\* columns run from 0 to MaxColumn.
MaxColumn == 2

\* '\n'
Newline == "\n"

\* readFileSync(filePath, 'utf-8').split('\n'): up to MaxLine lines of up to
\* MaxColumn characters; <<i, j>> is the j-th character of line i, so that
\* every character of the file is told from every other.
Files ==
  UNION {{[i \in 1..n |-> [j \in 1..len[i] |-> <<i, j>>]] : len \in [1..n -> 0..MaxColumn]} :
           n \in 1..MaxLine}

\* edit.newText: nothing, one character, two lines.
NewTexts == {<<>>, <<"x">>, <<"x", Newline, "y">>}

\* the text edits whose range lies within the file: lines from 1, offsets
\* from 0, the end not before the start.
TextEditsIn(lines) ==
  {e \in [startLine : 1..Len(lines), startLineOffset : 0..MaxColumn,
          endLine : 1..Len(lines), endLineOffset : 0..MaxColumn, newText : NewTexts] :
     /\ e.startLineOffset <= Len(lines[e.startLine])
     /\ e.endLineOffset <= Len(lines[e.endLine])
     /\ \/ e.startLine < e.endLine
        \/ e.startLine = e.endLine /\ e.startLineOffset <= e.endLineOffset}

\* String.prototype.substring(start, end): both clamped to the string, and
\* swapped when start is the larger.
substring(str, start, end) ==
  LET a == IF start > Len(str) THEN Len(str) ELSE start
      b == IF end > Len(str) THEN Len(str) ELSE end
  IN IF a <= b THEN SubSeq(str, a + 1, b) ELSE SubSeq(str, b + 1, a)

\* lines.join('\n')
RECURSIVE join(_)
join(lines) ==
  IF lines = <<>> THEN <<>>
  ELSE IF Len(lines) = 1 THEN lines[1]
  ELSE lines[1] \o <<Newline>> \o join(Tail(lines))

\* the body of `for (const edit of sortedEdits)`: lines is indexed from 0 in
\* the code and from 1 here. Reading a property of lines[k] for a k outside
\* the array throws a TypeError.
applyEdit(lines, edit) ==
  LET startLine == (IF edit.startLine # 0 THEN edit.startLine ELSE 1) - 1
      startCol == edit.startLineOffset
      endLine == (IF edit.endLine # 0 THEN edit.endLine ELSE startLine + 1) - 1
      endCol == IF edit.endLineOffset # 0 THEN edit.endLineOffset
                ELSE IF endLine + 1 \in DOMAIN lines THEN Len(lines[endLine + 1])
                ELSE 0
      newText == edit.newText
  IN IF startLine + 1 \notin DOMAIN lines \/ endLine + 1 \notin DOMAIN lines
     THEN [lines |-> lines, thrown |-> "TypeError"]
     ELSE IF startLine = endLine
     THEN [lines |-> [lines EXCEPT ![startLine + 1] =
                        substring(@, 0, startCol) \o newText \o substring(@, endCol, Len(@))],
           thrown |-> ""]
     ELSE LET firstLine == substring(lines[startLine + 1], 0, startCol) \o newText
              lastLine == substring(lines[endLine + 1], endCol, Len(lines[endLine + 1]))
          IN [lines |-> SubSeq(lines, 1, startLine) \o <<firstLine \o lastLine>>
                          \o SubSeq(lines, endLine + 2, Len(lines)),
              thrown |-> ""]

\* a quick fix with one file edit is about to be applied to the file.
InitEdits ==
  /\ Bridge0
  /\ Server0
  /\ last = Unobserved
  /\ installed = TRUE
  /\ writable = TRUE
  /\ main = "no"
  /\ results = <<>>
  /\ sent = <<>>
  /\ \E lines \in Files :
       \E textEdits \in SeqsOf(TextEditsIn(lines), 1, MaxTextEdits) :
         batch = [pc |-> "edits", content |-> lines, lines |-> lines,
                  textEdits |-> textEdits, sortedEdits |-> sortedEdits(textEdits),
                  fileContent |-> <<>>]

\* one pass of `for (const edit of sortedEdits)`.
ApplyEdit ==
  /\ batch.pc = "edits"
  /\ batch.sortedEdits # <<>>
  /\ LET r == applyEdit(batch.lines, Head(batch.sortedEdits))
     IN batch' = [batch EXCEPT !.lines = r.lines,
                               !.sortedEdits = Tail(@),
                               !.pc = IF r.thrown # "" THEN "threw" ELSE @]

\* fileContent = lines.join('\n'); writeFileSync(filePath, fileContent)
WriteBack ==
  /\ batch.pc = "edits"
  /\ batch.sortedEdits = <<>>
  /\ batch' = [batch EXCEPT !.pc = "written", !.fileContent = join(batch.lines)]

EditsNext ==
  \/ ApplyEdit /\ UNCHANGED <<process, connected, messageId, pendingRequests, timers,
                              calls, procs, connectPromise, session, killed, last,
                              fixvars, framevars, scopevars, installed, writable,
                              main, results, sent>>
  \/ WriteBack /\ UNCHANGED <<process, connected, messageId, pendingRequests, timers,
                              calls, procs, connectPromise, session, killed, last,
                              fixvars, framevars, scopevars, installed, writable,
                              main, results, sent>>

SpecEdits == InitEdits /\ [][EditsNext]_vars

\* ------------------------------- the MCP server: tool calls and results
MaxToolCalls == 2

MissingFile == Path(Cwd, "missing", "js")

OtherFile == Path(<<"other">>, "d", "js")

MissingDir == <<"nodir">>

\* the transient file of analyze_content for language javascript, no
\* fileName, at tick 1.
TempFile == tempFilePath("javascript", Undefined, 1)

\* the texts of the errors (userMessage of a SloopError, message otherwise)
FileMissingText == "The file does not exist. Please check the path and try again."
FilesMissingText == "The following files do not exist"
DirMissingText == "The directory does not exist. Please check the path and try again."
WriteFailedText == "EACCES: permission denied"

\* the tool calls that are tried: the arguments of the eight tools.
ToolInputs ==
  {[tool |-> t, filePaths |-> <<f>>, projectPath |-> <<>>, content |-> ""] :
     t \in {"analyze_file", "apply_quick_fix", "apply_all_quick_fixes"},
     f \in {FixFile, MissingFile}}
  \cup {[tool |-> "analyze_files", filePaths |-> fs, projectPath |-> <<>>, content |-> ""] :
          fs \in {<<>>, <<MissingFile>>, <<FixFile>>, <<FixFile, OtherFile>>}}
  \cup {[tool |-> "analyze_project", filePaths |-> <<>>, projectPath |-> d, content |-> ""] :
          d \in {<<"other">>, MissingDir}}
  \cup {[tool |-> "analyze_content", filePaths |-> <<>>, projectPath |-> <<>>, content |-> c] :
          c \in {"", "code"}}
  \cup {[tool |-> t, filePaths |-> <<>>, projectPath |-> <<>>, content |-> ""] :
          t \in {"list_active_rules", "health_check"}}

\* the handlers' view of the program: the bridge and the server's maps, the
\* disk, the handlers at an await, the results handed to the MCP client.
Host ==
  [w |-> World, files |-> files, awaiting |-> awaiting, results |-> results, sent |-> sent]

CommitServer(h) ==
  /\ scopeMap' = h.w.scopeMap
  /\ disk' = h.w.disk
  /\ tool' = h.w.tool
  /\ backend' = h.w.backend
  /\ analysed' = h.w.analysed
  /\ registered' = h.w.registered
  /\ files' = h.files
  /\ awaiting' = h.awaiting
  /\ results' = h.results
  /\ sent' = h.sent

CommitHost(h) ==
  /\ Commit(h.w.b)
  /\ CommitServer(h)

Sent(h, ev, scopeId, paths, call) ==
  [h EXCEPT !.sent = Append(@, [ev |-> ev, scopeId |-> scopeId, paths |-> paths,
                                call |-> call])]

\* the registered callback hands the handler's result, or what
\* handleToolError made of its error, to the MCP client.
returnResult(h, hd, isError, text) ==
  [h EXCEPT !.awaiting = {g \in @ : g.call # hd.call},
            !.results[hd.call] = [@ EXCEPT !.done = TRUE, !.isError = isError,
                                           !.text = text, !.deliveries = @ + 1]]

\* a handleAnalyzeContent without its finally block.
cleanedUp_Never(h, hd) == h

\* the finally block of handleAnalyzeContent: existsSync, unlinkSync.
cleanedUp(h, hd) ==
  IF hd.temp THEN [h EXCEPT !.files = @ \ {hd.filePaths[1]}] ELSE h

\* an error that a try/catch inside the handler keeps from leaving it.
caught(h, hd, text) == [h EXCEPT !.results[hd.call].raised = text]

\* the handler throws: catch (error) { return handleToolError(error) }
threw(h, hd, text) ==
  returnResult(caught(cleanedUp(h, hd), hd, text), hd, TRUE, text)

\* the handler returns its result.
succeeded(h, hd) == returnResult(cleanedUp(h, hd), hd, FALSE, "ok")

suspended(h, hd) == [h EXCEPT !.awaiting = {g \in @ : g.call # hd.call} \cup {hd}]

\* await bridge.analyzeFilesAndTrack(scopeId, paths)
analysisAwaited(h, hd, r, scopeId, paths, pc) ==
  IF r.thrown # "" THEN threw(h, hd, r.thrown)
  ELSE suspended(Sent([h EXCEPT !.w.b = r.b], "analysis/analyzeFilesAndTrack",
                      scopeId, paths, hd.call),
                 [hd EXCEPT !.pc = pc, !.id = r.b.messageId, !.scopeId = scopeId])

analysisSent(h, hd, scopeId, paths, pc) ==
  analysisAwaited(h, hd, sendRequest(h.w.b, "analysis/analyzeFilesAndTrack", "client", 0),
                  scopeId, paths, pc)

\* getOrCreateScope(filePath), with the notification it sent.
scopedAs(h, s, call) ==
  [h |-> IF Len(s.w.registered) > Len(h.w.registered)
         THEN Sent([h EXCEPT !.w = s.w], "configuration/didAddConfigurationScopes",
                   s.scopeId, {}, call)
         ELSE [h EXCEPT !.w = s.w],
   thrown |-> s.thrown, scopeId |-> s.scopeId]

scoped(h, filePath, call) == scopedAs(h, getOrCreateScope(h.w, filePath), call)

\* handleAnalyzeFiles: filesByScope, filled in the order of filePaths.
RECURSIVE filesByScope(_, _, _, _)
RECURSIVE grouped(_, _, _, _)
grouped(s, filePaths, groups, call) ==
  LET at == {i \in 1..Len(groups) : groups[i].scopeId = s.scopeId}
  IN IF s.thrown # "" THEN [h |-> s.h, thrown |-> s.thrown, groups |-> groups]
     ELSE filesByScope(
            s.h, Tail(filePaths),
            IF at = {}
            THEN Append(groups, [scopeId |-> s.scopeId, paths |-> {Head(filePaths)}])
            ELSE [groups EXCEPT ![Min(at)].paths = @ \cup {Head(filePaths)}],
            call)

filesByScope(h, filePaths, groups, call) ==
  IF filePaths = <<>> THEN [h |-> h, thrown |-> "", groups |-> groups]
  ELSE grouped(scoped(h, Head(filePaths), call), filePaths, groups, call)

\* an array of the elements of S.
RECURSIVE listed(_)
listed(S) ==
  IF S = {} THEN <<>>
  ELSE LET f == CHOOSE x \in S : TRUE IN <<f>> \o listed(S \ {f})

\* findSourceFiles(projectPath): the supported files in and below the
\* directory.
findSourceFiles(onDisk, projectPath) ==
  listed({f \in onDisk :
            /\ Len(f.dir) >= Len(projectPath)
            /\ SubSeq(f.dir, 1, Len(projectPath)) = projectPath
            /\ detectLanguage(f) # "unknown"})

\* handlers that check none of their arguments: those of the tools with a
\* filePath go on, the others return.
validated_NothingChecked(h, hd, input) ==
  [h |-> h, hd |-> hd, thrown |-> "",
   done |-> input.tool \notin {"analyze_file", "apply_quick_fix", "apply_all_quick_fixes"}]

\* how far a handler got before `await ensureSloopBridge()`: it threw, it
\* returned (done), or it goes on.
Checked(h, hd, thrown, done) == [h |-> h, hd |-> hd, thrown |-> thrown, done |-> done]

batchedAs(g, hd) ==
  IF g.thrown # "" THEN Checked(g.h, hd, g.thrown, FALSE)
  ELSE Checked(g.h, [hd EXCEPT !.groups = g.groups], "", FALSE)

\* handleAnalyzeFiles from its start to its `await ensureSloopBridge()`.
batched(h, hd, filePaths) ==
  IF filePaths = <<>> THEN Checked(h, hd, "Please provide at least one file path to analyze.", FALSE)
  ELSE IF \E i \in 1..Len(filePaths) : filePaths[i] \notin h.files
  THEN Checked(h, hd, FilesMissingText, FALSE)
  ELSE batchedAs(filesByScope(h, filePaths, <<>>, hd.call), hd)

\* a handler from its start to its `await ensureSloopBridge()`: the
\* argument checks, and what analyze_content and analyze_files do before.
validated(h, hd, input) ==
  CASE input.tool \in {"analyze_file", "apply_quick_fix", "apply_all_quick_fixes"} ->
         IF input.filePaths[1] \notin h.files THEN Checked(h, hd, FileMissingText, FALSE)
         ELSE IF input.tool = "analyze_file"
                 /\ detectLanguage(input.filePaths[1]) = "unknown"
         THEN Checked(h, hd, "No analyzer available", FALSE)
         ELSE Checked(h, hd, "", FALSE)
    [] input.tool = "analyze_files" -> batched(h, hd, input.filePaths)
    [] input.tool = "analyze_project" ->
         IF input.projectPath \notin Roots THEN Checked(h, hd, DirMissingText, FALSE)
         ELSE IF findSourceFiles(h.files, input.projectPath) = <<>>
         THEN Checked(h, hd, "", TRUE)
         ELSE batched(h, hd, findSourceFiles(h.files, input.projectPath))
    [] input.tool = "analyze_content" ->
         IF input.content = "" THEN Checked(h, hd, "Please provide non-empty content to analyze.", FALSE)
         ELSE Checked(Sent([h EXCEPT !.files = @ \cup {TempFile}], "writeTemp",
                           Undefined, {TempFile}, hd.call),
                      [hd EXCEPT !.temp = TRUE, !.filePaths = <<TempFile>>], "", FALSE)
    [] OTHER -> Checked(h, hd, "", TRUE)

\* the next group of filesByScope is analysed.
nextGroup(h, hd) ==
  analysisSent(h, [hd EXCEPT !.groups = Tail(@)], Head(hd.groups).scopeId,
               Head(hd.groups).paths, "analysis")

analysedIn(s, hd) ==
  IF s.thrown # "" THEN threw(s.h, hd, s.thrown)
  ELSE analysisSent(s.h, hd, s.scopeId, {hd.filePaths[1]}, "analysis")

\* a handler from the return of ensureSloopBridge() to its next await.
afterEnsure(h, hd) ==
  IF hd.tool \in {"analyze_files", "analyze_project"} THEN nextGroup(h, hd)
  ELSE analysedIn(scoped(h, hd.filePaths[1], hd.call), hd)

\* writeFileSync(filePath, fileContent)
written(h, hd) ==
  Sent([h EXCEPT !.w.disk = @ + 1], "write", hd.scopeId, {hd.filePaths[1]}, hd.call)

\* await notifyFileSystemChanged(filePath, scopeId): an error is caught.
notified(h, hd) ==
  LET r == sendNotification(h.w.b, "file/didOpenFile")
  IN IF r.thrown # "" THEN caught(h, hd, r.thrown)
     ELSE Sent(Sent(h, "file/didOpenFile", hd.scopeId, {hd.filePaths[1]}, hd.call),
               "file/didUpdateFileSystem", hd.scopeId, {hd.filePaths[1]}, hd.call)

\* await new Promise(resolve => setTimeout(resolve, 500))
settling(h, hd) == suspended(h, [hd EXCEPT !.pc = "settle", !.id = 0])

\* the promise a handler awaits has settled.
Resumable(b, hd) ==
  \/ hd.pc = "connect" /\ b.connectPromise[1] # "pending"
  \/ hd.pc \in {"analysis", "reanalysis"} /\ b.calls[hd.id].state # "pending"

\* the handler's code from the await that has settled to its next await or
\* its end.
continued(h, hd) ==
  IF hd.pc = "connect"
  THEN IF h.w.b.connectPromise[1] = "resolved" THEN afterEnsure(h, hd)
       ELSE threw(h, hd, "Failed to start SonarLint backend.")
  ELSE LET call == h.w.b.calls[hd.id]
       IN IF call.state = "rejected" THEN threw(h, hd, call.value)
          ELSE CASE hd.pc = "reanalysis" -> succeeded(h, hd)
                 [] hd.tool \in {"analyze_files", "analyze_project"} ->
                      IF hd.groups = <<>> THEN succeeded(h, hd) ELSE nextGroup(h, hd)
                 [] hd.tool = "apply_quick_fix" ->
                      IF call.value # "issues" THEN threw(h, hd, "No issue found at line")
                      ELSE IF ~writable THEN threw(h, hd, WriteFailedText)
                      ELSE settling(notified(written(h, hd), hd), hd)
                 [] hd.tool = "apply_all_quick_fixes" ->
                      IF call.value # "issues" THEN succeeded(h, hd)
                      ELSE settling(notified(IF writable THEN written(h, hd)
                                             ELSE caught(h, hd, WriteFailedText), hd), hd)
                 [] OTHER -> succeeded(h, hd)

\* the handlers whose promise has settled go on, in the order of the calls
\* they await.
RECURSIVE resumedAll(_, _)
resumedAll(h, ready) ==
  IF ready = {} THEN h
  ELSE LET c == Min(ready)
           hd == CHOOSE g \in h.awaiting : g.call = c
       IN resumedAll(continued(h, hd), ready \ {c})

\* a turn of the event loop has left the bridge as b.
Turn(b) ==
  /\ CommitHost(resumedAll([Host EXCEPT !.w.b = b],
                           {g.call : g \in {g \in awaiting : Resumable(b, g)}}))
  /\ main' = IF main = "connecting" /\ b.connectPromise[1] # "pending" THEN "serving"
             ELSE main
  /\ UNCHANGED <<last, framevars, responses, batch, installed, writable>>

\* main(): ensureSloopBridge() is awaited, its error logged, and the server
\* connects its transport.
Main ==
  /\ main = "no"
  /\ IF installed
     THEN /\ Connect
          /\ main' = "connecting"
     ELSE /\ main' = "serving"
          /\ UNCHANGED <<process, connected, messageId, pendingRequests, timers, calls,
                         procs, connectPromise, session, killed, last>>
  /\ UNCHANGED <<fixvars, framevars, scopevars, batch, installed, writable, results, sent>>

\* the backend is installed while the server runs.
Install ==
  /\ ~installed
  /\ installed' = TRUE
  /\ UNCHANGED <<process, connected, messageId, pendingRequests, timers, calls, procs,
                 connectPromise, session, killed, last, fixvars, framevars, scopevars,
                 batch, writable, main, results, sent>>

\* a new call of a tool, and its handler before its first statement.
NewResult(input) ==
  [tool |-> input.tool, filePaths |-> input.filePaths, done |-> FALSE,
   isError |-> FALSE, text |-> "", deliveries |-> 0, raised |-> ""]

NewHandler(call, input) ==
  [call |-> call, tool |-> input.tool, pc |-> "start", id |-> 0,
   filePaths |-> input.filePaths, groups |-> <<>>, temp |-> FALSE, scopeId |-> Undefined]

\* `await ensureSloopBridge()` and what follows it in the same turn.
Ensured(v) ==
  IF v.thrown # ""
  THEN CommitHost(threw(v.h, v.hd, v.thrown)) /\ UNCHANGED <<procs, last>>
  ELSE IF v.done
  THEN CommitHost(succeeded(v.h, v.hd)) /\ UNCHANGED <<procs, last>>
  ELSE IF ~sloopBridgeIsNull(Bridge)
  THEN CommitHost(afterEnsure(v.h, v.hd)) /\ UNCHANGED <<procs, last>>
  ELSE IF ~installed
  THEN CommitHost(threw(v.h, v.hd, "SonarLint backend not installed.")) /\ UNCHANGED <<procs, last>>
  ELSE /\ Connect
       /\ CommitServer(suspended(v.h, [v.hd EXCEPT !.pc = "connect"]))

\* the MCP client calls a tool: the registered callback runs the handler up
\* to its first await that does not settle at once.
CallTool(input) ==
  /\ main = "serving"
  /\ Len(results) < MaxToolCalls
  /\ Ensured(validated([Host EXCEPT !.results = Append(@, NewResult(input))],
                       NewHandler(Len(results) + 1, input), input))
  /\ UNCHANGED <<framevars, responses, batch, installed, writable, main>>

\* the backend answers call id: with its result or with an error.
BackendResponse(id, outcome) ==
  /\ Len(procs) = 1
  /\ procs[1] = "running"
  /\ id \in pendingRequests
  /\ calls[id].owner = "connect" => outcome # "issues"
  /\ Turn(handleMessage(
            Bridge,
            [id |-> String(id), method |-> Undefined,
             result |-> IF outcome = "error" THEN Undefined
                        ELSE IF calls[id].owner = "connect" THEN ResultFor(String(id))
                        ELSE outcome,
             error |-> IF outcome = "error" THEN [present |-> TRUE, message |-> "boom"]
                       ELSE NoError]).b)
  /\ UNCHANGED procs

\* the deadline of call id passes.
Deadline(id) ==
  /\ id \in timers
  /\ Turn(settle([Bridge EXCEPT !.timers = @ \ {id}, !.pendingRequests = @ \ {id}],
                 id, "rejected", TimeoutText(calls[id].method)))
  /\ UNCHANGED procs

\* the backend process exits.
BackendCloses ==
  /\ Len(procs) = 1
  /\ procs[1] = "running"
  /\ procs' = [procs EXCEPT ![1] = "closed"]
  /\ Turn(rejectAllPending([Bridge EXCEPT !.connected = FALSE,
                                          !.session = "Disconnected"], ProcessClosed))

\* the 500 ms timer of a fix handler fires.
Settled(call) ==
  /\ \E hd \in awaiting :
       /\ hd.call = call
       /\ hd.pc = "settle"
       /\ LET h == Sent(Host, "delay", hd.scopeId, {hd.filePaths[1]}, call)
          IN CommitHost(IF hd.tool = "apply_quick_fix" THEN succeeded(h, hd)
                        ELSE analysisSent(h, hd, hd.scopeId, {hd.filePaths[1]},
                                          "reanalysis"))
  /\ UNCHANGED <<procs, last, framevars, responses, batch, installed, writable, main>>

InitTools ==
  /\ Bridge0
  /\ Server0
  /\ last = Unobserved
  /\ batch = NoBatch
  /\ installed \in BOOLEAN
  /\ writable \in BOOLEAN
  /\ main = "no"
  /\ results = <<>>
  /\ sent = <<>>

ToolsNext ==
  \/ Main
  \/ Install
  \/ \E input \in ToolInputs : CallTool(input)
  \/ \E id \in 1..(2 * MaxToolCalls + 1) :
       \E outcome \in {"issues", "clean", "error"} : BackendResponse(id, outcome)
  \/ \E id \in 1..(2 * MaxToolCalls + 1) : Deadline(id)
  \/ BackendCloses
  \/ \E call \in 1..MaxToolCalls : Settled(call)

SpecTools == InitTools /\ [][ToolsNext]_vars

\* the same server serving a shorter session: the handlers of a call run as
\* above, fewer calls are made.
MaxSessionCalls == 1

SessionNext ==
  \/ Main
  \/ Install
  \/ \E input \in ToolInputs : Len(results) < MaxSessionCalls /\ CallTool(input)
  \/ \E id \in 1..(2 * MaxSessionCalls + 1) :
       \E outcome \in {"issues", "clean", "error"} : BackendResponse(id, outcome)
  \/ \E id \in 1..(2 * MaxSessionCalls + 1) : Deadline(id)
  \/ BackendCloses
  \/ \E call \in 1..MaxSessionCalls : Settled(call)

SpecSession == InitTools /\ [][SessionNext]_vars

\* ================================================================ claims
CallIds == 1..Len(calls)

\* C1: when a child's close event fires with K calls outstanding, each of
\* the K is rejected once with 'SLOOP process closed', the pending table is
\* empty afterwards and no timer is left armed to fire later.
C1_MassRejectionOnClose ==
  [][\A p \in 1..MaxProcs :
       ProcessClose(p) =>
         /\ pendingRequests' = {}
         /\ timers' = {}
         /\ ~connected'
         /\ \A id \in pendingRequests :
              /\ calls'[id].state = "rejected"
              /\ calls'[id].value = ProcessClosed
              /\ calls'[id].settles = 1]_vars

\* a close event has rejected two outstanding calls at once.
C1_Witness ==
  /\ pendingRequests = {}
  /\ timers = {}
  /\ \E i, j \in CallIds :
       /\ i # j
       /\ calls[i].state = "rejected" /\ calls[i].value = ProcessClosed
       /\ calls[j].state = "rejected" /\ calls[j].value = ProcessClosed

\* C2: a call settled by a response is settled by the response carrying its
\* own id: resolved with that response's result, or rejected with the
\* message of that response's error object (the default text when the error
\* object carries none).
C2_CallCorrelation ==
  \A id \in CallIds :
    /\ calls[id].state = "resolved" =>
         /\ calls[id].by.id = String(id)
         /\ ~calls[id].by.error.present
         /\ calls[id].value = calls[id].by.result
         /\ calls[id].value = ResultFor(String(id))
    /\ (calls[id].state = "rejected" /\ calls[id].by # NoResponse) =>
         /\ calls[id].by.id = String(id)
         /\ calls[id].by.error.present
         /\ Truthy(calls[id].by.error.message) =>
              calls[id].value = calls[id].by.error.message
         /\ ~Truthy(calls[id].by.error.message) => calls[id].value = RpcErrorDefault
    /\ (calls[id].state = "rejected" /\ calls[id].by = NoResponse) =>
         calls[id].value \in {ProcessClosed, TimeoutText(calls[id].method)}
    /\ calls[id].state = "pending" => calls[id].by = NoResponse

\* three calls outstanding at once were answered out of order: the later
\* ones resolved with different results, the first rejected by an error.
C2_Witness ==
  /\ Len(calls) >= 3
  /\ calls[1].state = "rejected" /\ calls[1].value = "boom"
  /\ calls[2].state = "resolved" /\ calls[2].value = ResultFor("s2")
  /\ calls[3].state = "resolved" /\ calls[3].value = ResultFor("s3")
  /\ connectPromise[1] = "rejected"
LogIdx == 1..Len(tool.log)

C5_SendsOnlyInReady ==
  [][/\ \A method \in ClientMethods :
          (SendRequest(method) /\ session # "Ready") =>
            /\ last'.thrown = NotConnected
            /\ last'.wire = <<>>
            /\ pendingRequests' = pendingRequests
      /\ \A notification \in NotificationMethods :
          (SendNotification(notification) /\ session # "Ready") =>
            /\ last'.thrown = NotConnected
            /\ last'.wire = <<>>]_vars

\* the initialize call that connect() sent to the current child.
Handshake == {id \in CallIds : calls[id].owner = "connect" /\ calls[id].proc = process}

\* C6: a connect() call has resolved only if the response to the initialize
\* request of the current child has been received, also when the call was
\* made while an earlier connect() was still handshaking.
C6_ConnectResolvesAfterHandshake ==
  (last.op = "connect" /\ last.kind = "resolved") =>
    \E id \in Handshake : calls[id].state = "resolved" /\ calls[id].by.id = String(id)

\* C7: every inbound request (id and method present) received while the
\* bridge is connected is answered with exactly one response frame carrying
\* the request's id; a method that is no callback is answered with {}.
C7_EveryInboundRequestAnswered ==
  [][\A m \in Messages :
       (Receive(m) /\ Present(m.id) /\ Present(m.method) /\ connected /\ process # 0) =>
         /\ Len(last'.wire) = 1
         /\ last'.wire[1].kind = "response"
         /\ last'.wire[1].id = m.id
         /\ m.method \notin CallbackMethods => last'.wire[1].body = "{}"]_vars

\* the truth table of routing by presence of id and method.
KindByPresence(m) ==
  IF Present(m.id) /\ Present(m.method) THEN "request"
  ELSE IF Present(m.id) THEN "response"
  ELSE IF Present(m.method) THEN "notification"
  ELSE "none"

\* C8: handleMessage handles every message as the one kind that the
\* presence of its id and method fields gives, whatever value a present id
\* carries: a request is answered, a response is looked up, a notification
\* is emitted and not answered.
C8_RoutingByPresence ==
  [][\A m \in Messages :
       Receive(m) =>
         /\ last'.kind = KindByPresence(m)
         /\ (KindByPresence(m) = "notification") =
              (Len(last'.emitted) > 0 /\ last'.emitted[1] = "notification")
         /\ KindByPresence(m) # "request" => last'.wire = <<>>]_vars

\* C9: every registered call is settled exactly once (by its response, an
\* error response, its deadline or process close), leaves the pending table
\* at that moment, and none stays pending forever.
C9_SettledExactlyOnce ==
  /\ [](\A id \in CallIds :
          /\ calls[id].settles <= 1
          /\ (calls[id].state = "pending") = (id \in pendingRequests)
          /\ (calls[id].state = "pending") = (calls[id].settles = 0))
  /\ \A id \in 1..FairMaxId :
       (id \in pendingRequests) ~>
         (id \in CallIds /\ id \notin pendingRequests /\ calls[id].settles = 1
            /\ calls[id].state \in {"resolved", "rejected"})

\* the handshake call was resolved by its response and a client call was
\* rejected by its deadline: each was settled once and left the table.
C9_Witness ==
  /\ pendingRequests = {}
  /\ Len(calls) = 2
  /\ \A id \in CallIds : calls[id].settles = 1
  /\ calls[1].state = "resolved"
  /\ calls[2].owner = "client"
  /\ calls[2].value = TimeoutText(calls[2].method)

\* C10: when one of several outstanding calls reaches its deadline, only
\* that call is rejected and removed; every other call keeps its entry, its
\* timer and its promise, and its own response would still resolve it.
C10_TimeoutIsolation ==
  [][\A id \in 1..MaxMessageId :
       Timeout(id) =>
         /\ pendingRequests' = pendingRequests \ {id}
         /\ timers' = timers \ {id}
         /\ calls'[id].state = "rejected"
         /\ calls'[id].value = TimeoutText(calls[id].method)
         /\ \A j \in CallIds \ {id} :
              /\ calls'[j] = calls[j]
              /\ j \in pendingRequests =>
                   LET answer == [id |-> String(j), method |-> Undefined,
                                  result |-> ResultFor(String(j)), error |-> NoError]
                       r == handleMessage(Bridge', answer)
                   IN /\ r.b.calls[j].state = "resolved"
                      /\ r.b.calls[j].value = ResultFor(String(j))]_vars

\* of two client calls outstanding together, the first timed out and the
\* second was then resolved by its own response.
C10_Witness ==
  /\ Len(calls) = 3
  /\ calls[2].owner = "client" /\ calls[3].owner = "client"
  /\ calls[2].state = "rejected" /\ calls[2].value = TimeoutText(calls[2].method)
  /\ calls[3].state = "resolved" /\ calls[3].value = ResultFor("s3")
  /\ calls[3].by.id = "s3"

\* C11: a call whose deadline elapses is rejected with the timeout error
\* naming its method and leaves the pending table; a response whose id is
\* not in the table (that of the timed-out call included) is discarded: it
\* settles no call, throws nothing, writes nothing and leaves the pending
\* table, the timers and the connection state as they were.
C11_LateResponseDiscarded ==
  [][/\ \A id \in 1..MaxMessageId :
          Timeout(id) =>
            /\ calls'[id].state = "rejected"
            /\ calls'[id].value = TimeoutText(calls[id].method)
            /\ id \notin pendingRequests'
            /\ id \notin timers'
      /\ \A m \in CallMessages :
          (Receive(m) /\ m.method = Undefined /\ PendingKey(Bridge, m.id) = 0) =>
            /\ UNCHANGED <<pendingRequests, timers, calls, connected, process, session,
                           connectPromise, procs>>
            /\ last'.thrown = ""
            /\ last'.wire = <<>>
            /\ last'.emitted = <<>>]_vars

\* the client call timed out while the handshake call is still pending, and
\* the turn just taken handled a response: one with an id not in the table.
C11_Witness ==
  /\ Len(calls) = 2
  /\ pendingRequests = {1}
  /\ calls[2].state = "rejected"
  /\ calls[2].value = TimeoutText("analysis/analyzeFilesAndTrack")
  /\ calls[2].settles = 1
  /\ last.op = "handleMessage"
  /\ last.kind = "response"

\* the messages the frames written so far encode, in order: a payload that
\* is no JSON encodes none.
RECURSIVE Encoded(_)
Encoded(payloads) ==
  IF payloads = <<>> THEN <<>>
  ELSE (IF ParsesAsJson(toString(Head(payloads)))
        THEN <<JSONparse(toString(Head(payloads)))>> ELSE <<>>)
       \o Encoded(Tail(payloads))

RECURSIVE Written(_)
Written(payloads) ==
  IF payloads = <<>> THEN <<>> ELSE FrameOf(Head(payloads)) \o Written(Tail(payloads))

IsPrefix(s, t) == Len(s) <= Len(t) /\ SubSeq(t, 1, Len(s)) = s

\* C12: the framer takes exactly the bytes Content-Length declares, also
\* when the payload holds multi-byte characters: what it has routed is
\* always a prefix of the messages the frames encode, and once every byte
\* written has been read, every frame has been decoded to its message.
C12_PayloadIsDeclaredBytes ==
  /\ IsPrefix(routed, Encoded(frames))
  /\ stream = <<>> => routed = Encoded(frames)

\* C13: complete frames read in chunks cut anywhere give the router the
\* same messages as the same bytes read in one chunk, and no frame is
\* routed before its header and whole payload have been read.
C13_ChunkingIsInvisible ==
  /\ stream = <<>> => routed = processMessages(toString(Written(frames)), <<>>).out
  /\ \A k \in 1..Len(frames) :
       fed < Len(Written(SubSeq(frames, 1, k))) =>
         Len(routed) <= Len(Encoded(SubSeq(frames, 1, k - 1)))

\* C14: a payload that fails to parse is dropped: reading it throws
\* nothing and changes neither the pending table nor the connection state,
\* and every other frame of the stream is still decoded and routed.
C14_MalformedPayloadDropped ==
  [][\A n \in 1..(MaxFrames * 9) :
       (Data(n) /\ \E k \in 1..Len(frames) : ~ParsesAsJson(toString(frames[k]))) =>
         /\ last'.thrown = ""
         /\ routed' = routed =>
              UNCHANGED <<pendingRequests, timers, calls, connected, process, session>>
         /\ stream' = <<>> => routed' = Encoded(frames)]_vars

C16_DescriptorsUserDefined ==
  /\ \A i \in 1..Len(backend.inbox) :
       backend.inbox[i].method = "file/didUpdateFileSystem" =>
         /\ backend.inbox[i].dto.isUserDefined
         /\ backend.inbox[i].dto.hasContent
  /\ \A j \in 1..Len(responses) :
       \A dto \in responses[j].files : dto.isUserDefined

\* a file/didUpdateFileSystem is on its way to the backend and listFiles has
\* been answered with the descriptors of the files found.
C16_Witness ==
  /\ \E i \in 1..Len(backend.inbox) : backend.inbox[i].method = "file/didUpdateFileSystem"
  /\ \E j \in 1..Len(responses) :
       /\ responses[j].method = "listFiles"
       /\ responses[j].files # {}

\* C17: when listFiles is answered for a scope, every file of an analysis
\* request outstanding under that scope, the transient file of
\* analyze_content included, is among the descriptors of the answer.
C17_AnalysedFilesAreListed ==
  [][\A configScopeId \in ScopeIds :
       ListFiles(configScopeId) =>
         \A h \in awaiting :
           (h.configScopeId = configScopeId /\ h.id \in pendingRequests) =>
             \E dto \in responses'[Len(responses')].files : dto.fsPath = h.filePath]_vars

\* C18: getBaseDir answers with the project root of the scope whose id the
\* request carries.
C18_BaseDirIsScopeRoot ==
  \A j \in 1..Len(responses) :
    responses[j].method = "getBaseDir" =>
      /\ scopeMap[responses[j].path] = responses[j].configScopeId
      /\ \A projectRoot \in Roots :
           scopeMap[projectRoot] = responses[j].configScopeId =>
             responses[j].path = projectRoot

\* C19: once the latest connect() has rejected, whether by the child's error
\* event or by a failed initialize, the bridge is disconnected:
\* isConnected() is false and a send throws the not-connected error.
C19_FailedConnectLeavesDisconnected ==
  (Len(connectPromise) > 0 /\ connectPromise[Len(connectPromise)] = "rejected") =>
    /\ ~connected
    /\ sendRequest(Bridge, "analysis/analyzeFilesAndTrack", "client", 0).thrown
         = NotConnected
    /\ sendNotification(Bridge, "file/didOpenFile").thrown = NotConnected

\* C20: disconnect() does not hang: the code after its await of shutdown
\* runs, however the request ends (answer, error, deadline, process exit),
\* and a disconnect() that cannot send goes on at once. When it has run, the
\* process whose handle the bridge held has been killed, the handle is
\* cleared and isConnected() is false.
C20_DisconnectCompletes ==
  /\ [][/\ \A id \in 1..FairMaxId :
             (/\ id \in CallIds
              /\ calls[id].owner = "disconnect"
              /\ calls[id].after = ""
              /\ calls'[id].after # "") =>
               /\ process' = 0
               /\ ~connected'
               /\ process # 0 => process \in killed'
        /\ (Disconnect /\ messageId' = messageId) =>
               /\ process' = 0
               /\ ~connected'
               /\ process # 0 => process \in killed']_vars
  /\ \A id \in 1..FairMaxId :
       (id \in CallIds /\ calls[id].owner = "disconnect")
         ~> (id \in CallIds /\ calls[id].after # "")

\* the shutdown request was never answered: its deadline passed, and
\* disconnect() killed the process and cleared the handle.
C20_Witness ==
  /\ Len(calls) = 2
  /\ calls[2].owner = "disconnect"
  /\ calls[2].state = "rejected"
  /\ calls[2].value = TimeoutText("shutdown")
  /\ calls[2].after = "done"
  /\ process = 0
  /\ ~connected
  /\ killed = {1}

\* C30: of the processes the bridge has spawned, at most one is alive: one
\* that has neither closed nor been killed.
C30_OneProcessAlive ==
  Cardinality({p \in 1..Len(procs) : procs[p] = "running" /\ p \notin killed}) <= 1

\* C26: a call of analyzeFilesAndTrack that is not refused writes exactly one
\* analysis/analyzeFilesAndTrack request and arms the 60 s deadline, which is
\* longer than the 30 s of the control class; the turn in which an analysis
\* call is rejected (deadline, error response, process exit, disconnect)
\* creates no call and writes no analysis request.
C26_OneRequestLongDeadline ==
  [][/\ SendRequest("analysis/analyzeFilesAndTrack") /\ last'.thrown = "" =>
          /\ messageId' = messageId + 1
          /\ Len(calls') = Len(calls) + 1
          /\ calls'[messageId'].method = "analysis/analyzeFilesAndTrack"
          /\ calls'[messageId'].timeoutMs = AnalysisTimeoutMs
          /\ calls'[messageId'].timeoutMs > ControlTimeoutMs
          /\ timers' = timers \cup {messageId'}
          /\ last'.wire = <<Frame("request", String(messageId'),
                                  "analysis/analyzeFilesAndTrack", process)>>
      /\ \A id \in 1..Len(calls) :
           ( /\ calls[id].method = "analysis/analyzeFilesAndTrack"
             /\ calls[id].state = "pending"
             /\ calls'[id].state = "rejected" ) =>
               /\ messageId' = messageId
               /\ Len(calls') = Len(calls)
               /\ \A i \in 1..Len(last'.wire) :
                    last'.wire[i].body # "analysis/analyzeFilesAndTrack"]_vars

\* an analysis call was sent with the 60 s deadline after the handshake call,
\* and its deadline passed: it is rejected and nothing was sent after it.
C26_Witness ==
  /\ Len(calls) = 2
  /\ messageId = 2
  /\ calls[1].timeoutMs = ControlTimeoutMs
  /\ calls[2].method = "analysis/analyzeFilesAndTrack"
  /\ calls[2].timeoutMs = AnalysisTimeoutMs
  /\ calls[2].state = "rejected"
  /\ calls[2].value = TimeoutText("analysis/analyzeFilesAndTrack")
  /\ last.op = "timeout"

\* C23: apply_all_quick_fixes applies the fixes in non-increasing order of
\* their issue's start line, and the text edits of each fix in
\* non-increasing order of their start line.
C23_AppliedBottomUp ==
  /\ \A i \in 1..(Len(batch.appliedFixes) - 1) :
       batch.appliedFixes[i].line >= batch.appliedFixes[i + 1].line
  /\ \A i \in 1..Len(batch.appliedFixes) :
       LET edits == batch.appliedFixes[i].edits
       IN \A j \in 1..(Len(edits) - 1) : editStart(edits[j]) >= editStart(edits[j + 1])


\* the calls with a path that does not exist.
MissingPathInputs ==
  {input \in ToolInputs :
     \/ \E i \in 1..Len(input.filePaths) : input.filePaths[i] \notin UserFiles
     \/ input.tool = "analyze_project" /\ input.projectPath \notin Roots}

\* C21: a call of analyze_file, analyze_files, analyze_project,
\* apply_quick_fix or apply_all_quick_fixes with a path that does not exist
\* returns at once a result with isError = true whose text says that the path
\* does not exist, and a call of analyze_content with empty content returns
\* at once an error result; the call sends no request and no notification
\* to the backend and writes no file.
C21_InvalidArgumentsRejected ==
  [][\A input \in ToolInputs :
       ( /\ CallTool(input)
         /\ \/ input \in MissingPathInputs
            \/ input.tool = "analyze_content" /\ input.content = "" ) =>
           /\ Len(results') = Len(results) + 1
           /\ results'[Len(results')].done
           /\ results'[Len(results')].isError
           /\ results'[Len(results')].deliveries = 1
           /\ input \in MissingPathInputs =>
                results'[Len(results')].text \in
                  {FileMissingText, FilesMissingText, DirMissingText}
           /\ UNCHANGED <<process, connected, messageId, pendingRequests, timers, calls,
                          procs, connectPromise, session, killed>>
           /\ UNCHANGED <<sent, registered, scopeMap, files, disk, awaiting>>]_vars

\* apply_all_quick_fixes was called for a file that does not exist and has
\* returned its error; nothing was sent or written for it.
C21_Witness ==
  \E c \in 1..Len(results) :
    /\ results[c].tool = "apply_all_quick_fixes"
    /\ results[c].filePaths = <<MissingFile>>
    /\ results[c].done
    /\ results[c].isError
    /\ results[c].text = FileMissingText
    /\ \A i \in 1..Len(sent) : sent[i].call # c

C22_ErrorsBecomeErrorResults ==
  \A c \in 1..Len(results) :
    results[c].done =>
      /\ results[c].deliveries = 1
      /\ results[c].raised # "" => results[c].isError


\* the entries of the log that call c made after entry w.
After(c, w, ev) == {i \in (w + 1)..Len(sent) : sent[i].ev = ev /\ sent[i].call = c}

\* C28: when apply_quick_fix has written the file and has returned its
\* success result, it had sent file/didOpenFile and
\* file/didUpdateFileSystem after the write.
C28_NotifiedBeforeSuccess ==
  \A c \in 1..Len(results) :
    ( /\ results[c].tool = "apply_quick_fix"
      /\ results[c].done
      /\ ~results[c].isError ) =>
        \A w \in 1..Len(sent) :
          (sent[w].ev = "write" /\ sent[w].call = c) =>
            /\ After(c, w, "file/didOpenFile") # {}
            /\ After(c, w, "file/didUpdateFileSystem") # {}

\* C25: a call of analyze_file for a file that an earlier call of
\* analyze_file has analysed, and that was not written since, returns
\* its result at once and sends no request to the backend.
C25_RepeatedAnalysisFromCache ==
  [][\A input \in ToolInputs :
       ( /\ CallTool(input)
         /\ input.tool = "analyze_file"
         /\ \E c \in 1..Len(results) :
              /\ results[c].tool = "analyze_file"
              /\ results[c].filePaths = input.filePaths
              /\ results[c].done
              /\ ~results[c].isError
         /\ \A i \in 1..Len(sent) : sent[i].ev # "write" ) =>
           /\ messageId' = messageId
           /\ sent' = sent
           /\ results'[Len(results')].done]_vars

\* C27: after a fix was written to a file, no analysis request for the file
\* is sent before the call that wrote it has sent both notifications and
\* its settling delay has passed.
C27_NoAnalysisDuringInvalidation ==
  \A w \in 1..Len(sent) : \A a \in (w + 1)..Len(sent) :
    ( /\ sent[w].ev = "write"
      /\ sent[a].ev = "analysis/analyzeFilesAndTrack"
      /\ sent[w].paths \subseteq sent[a].paths ) =>
        \E d \in (w + 1)..(a - 1) :
          /\ sent[d].ev = "delay"
          /\ sent[d].call = sent[w].call
          /\ \E o \in (w + 1)..(d - 1) : \E u \in (o + 1)..(d - 1) :
               /\ sent[o].ev = "file/didOpenFile" /\ sent[o].call = sent[w].call
               /\ sent[u].ev = "file/didUpdateFileSystem" /\ sent[u].call = sent[w].call

\* C29: every analysis request names a scope id that an earlier
\* configuration/didAddConfigurationScopes to the same backend process
\* named.
C29_AnalysedScopeWasAdded ==
  \A a \in 1..Len(sent) :
    sent[a].ev = "analysis/analyzeFilesAndTrack" =>
      \E j \in 1..(a - 1) :
        /\ sent[j].ev = "configuration/didAddConfigurationScopes"
        /\ sent[j].scopeId = sent[a].scopeId

\* C31: an inbound request (id and method present) whose id is the key of an
\* outstanding call of the bridge is answered as a request, with one response
\* frame carrying that id, and leaves the call as it was: pending, in the
\* pending table, its deadline armed.
C31_RequestLeavesCallOutstanding ==
  [][\A m \in Messages :
       (Receive(m) /\ Present(m.id) /\ Present(m.method)
          /\ PendingKey(Bridge, m.id) # 0) =>
         /\ last'.kind = "request"
         /\ Len(last'.wire) = 1
         /\ last'.wire[1].kind = "response"
         /\ last'.wire[1].id = m.id
         /\ calls' = calls
         /\ pendingRequests' = pendingRequests
         /\ timers' = timers]_vars

\* s is t with some of its elements left out, the others in their order.
RECURSIVE IsSubseq(_, _)
IsSubseq(s, t) ==
  IF s = <<>> THEN TRUE
  ELSE IF t = <<>> THEN FALSE
  ELSE IF Head(s) = Head(t) THEN IsSubseq(Tail(s), Tail(t))
  ELSE IsSubseq(s, Tail(t))

\* the ids of the requests among the messages, in order.
RECURSIVE RequestIds(_)
RequestIds(messages) ==
  IF messages = <<>> THEN <<>>
  ELSE (IF Truthy(Head(messages).method) THEN <<Head(messages).id>> ELSE <<>>)
       \o RequestIds(Tail(messages))

\* C32: inbound messages are handled one at a time in the order of their
\* frames on the child's output: the messages handed to handleMessage are
\* the decoded frames in their order, and the responses that one 'data'
\* event writes answer the requests it decoded, in the order they arrived.
C32_HandledInArrivalOrder ==
  /\ [](IsSubseq(routed, [i \in 1..Len(frames) |-> JSONparse(frames[i])]))
  /\ [][\A n \in 1..(MaxFrames * 9) :
          (Data(n) /\ connected /\ process # 0) =>
            /\ \A i \in 1..Len(last'.wire) : last'.wire[i].kind = "response"
            /\ [i \in 1..Len(last'.wire) |-> last'.wire[i].id]
                 = RequestIds(SubSeq(routed', Len(routed) + 1, Len(routed')))]_vars

\* one 'data' event carried two requests with different ids, and both were
\* answered.
C32_Witness ==
  /\ last.op = "data"
  /\ Len(last.wire) = 2
  /\ last.wire[1].id # last.wire[2].id
  /\ Len(routed) >= 2

\* the calls sent to the latest child: its initialize call and those after it.
NewerCalls ==
  {id \in CallIds :
     \E h \in CallIds : /\ calls[h].owner = "connect"
                        /\ calls[h].proc = Len(procs)
                        /\ id >= h}

\* C33: the close event of a child that has been replaced by a newer one
\* leaves this.connected as it is and rejects no call that was sent to the
\* newer child.
C33_StaleCloseIgnored ==
  [][\A p \in 1..MaxProcs :
       (ProcessClose(p) /\ p < Len(procs)) =>
         /\ connected' = connected
         /\ \A id \in NewerCalls :
              /\ calls'[id].state = calls[id].state
              /\ id \in pendingRequests => id \in pendingRequests']_vars

\* C34: ensureSloopBridge hands a bridge to a handler only when the session
\* is Ready. A tool call made while it is not (no bridge yet, handshake under
\* way or failed, backend exited) waits for connect() or ends with an error
\* of its arguments or of ensureSloopBridge: its handler neither goes on to
\* its backend calls nor fails with the bridge's not-connected error.
C34_BridgeReturnedOnlyReady ==
  [][\A input \in ToolInputs :
       (CallTool(input) /\ session # "Ready") =>
         /\ \A hd \in awaiting' : hd.call = Len(results) + 1 => hd.pc = "connect"
         /\ results'[Len(results) + 1].raised # NotConnected]_vars

\* C35: once a child has exited, the first frame of the next child is
\* decoded from its own first byte: when all its bytes have arrived, the
\* first message handed to handleMessage is that frame's payload, whatever
\* the exited child had left unfinished.
C35_FreshStreamAfterRestart ==
  (/\ \E p \in 1..Len(procs) : procs[p] = "closed"
   /\ Len(frames) >= 1
   /\ fed >= Len(FrameOf(frames[1]))) =>
    /\ Len(routed) >= 1
    /\ routed[1] = JSONparse(frames[1])

\* the position of (line, column) in the content: the characters before it,
\* a line break counted as one.
RECURSIVE OffsetOf(_, _, _)
OffsetOf(lines, line, column) ==
  IF line = 1 THEN column
  ELSE Len(lines[1]) + 1 + OffsetOf(Tail(lines), line - 1, column)

\* the content with the characters from..to replaced by newText.
ReplaceRange(content, from, to, newText) ==
  SubSeq(content, 1, from) \o newText \o SubSeq(content, to + 1, Len(content))

StartOf(lines, e) == OffsetOf(lines, e.startLine, e.startLineOffset)

EndOf(lines, e) == OffsetOf(lines, e.endLine, e.endLineOffset)

\* C36: applying one text edit to the file replaces the characters inside
\* its range with newText and leaves every character outside the range as it
\* was, for every range within the file, empty ranges and ranges ending at
\* column 0 included.
C36_EditReplacesItsRange ==
  [][(ApplyEdit /\ batch.lines = batch.content
        /\ Len(batch.sortedEdits) = Len(batch.textEdits)) =>
       LET e == Head(batch.sortedEdits)
       IN /\ batch'.pc # "threw"
          /\ join(batch'.lines) =
               ReplaceRange(join(batch.lines), StartOf(batch.lines, e),
                            EndOf(batch.lines, e), e.newText)]_vars

\* the ranges of the edits do not overlap and start at different positions.
NonOverlapping(lines, edits) ==
  \A i, j \in 1..Len(edits) :
    i # j =>
      /\ StartOf(lines, edits[i]) # StartOf(lines, edits[j])
      /\ \/ EndOf(lines, edits[i]) <= StartOf(lines, edits[j])
         \/ EndOf(lines, edits[j]) <= StartOf(lines, edits[i])

\* all edits applied at once to the content: each range of the content as
\* it was is replaced, the last range first.
RECURSIVE AllAtOnce(_, _, _)
AllAtOnce(lines, content, edits) ==
  IF edits = <<>> THEN content
  ELSE LET i == CHOOSE k \in 1..Len(edits) :
                  \A m \in 1..Len(edits) :
                    StartOf(lines, edits[m]) <= StartOf(lines, edits[k])
           e == edits[i]
       IN AllAtOnce(lines,
                    ReplaceRange(content, StartOf(lines, e), EndOf(lines, e), e.newText),
                    SubSeq(edits, 1, i - 1) \o SubSeq(edits, i + 1, Len(edits)))

\* C37: no edit changes the text or the position of the range of an edit
\* applied after it: for edits that do not overlap, the file written is the
\* content the analysis saw with all of them applied at once, also for
\* several edits on one line and for newText with line breaks. (Edits whose
\* range ends at column 0 are left to C36.)
C37_EditsDoNotDisturbEachOther ==
  (/\ batch.pc \in {"written", "threw"}
   /\ NonOverlapping(batch.content, batch.textEdits)
   /\ \A i \in 1..Len(batch.textEdits) : batch.textEdits[i].endLineOffset # 0) =>
    /\ batch.pc = "written"
    /\ batch.fileContent =
         AllAtOnce(batch.content, join(batch.content), batch.textEdits)

\* C38: analyze_content neither overwrites nor deletes a file that was there
\* before the call, whatever its fileName argument: every file of the user
\* is still on disk.
C38_UserFilesKept == UserFiles \subseteq files

\* C39: overlapping disconnect() calls all complete without throwing: none
\* ends with an error after its await of the shutdown request.
C39_OverlappingDisconnectsComplete ==
  \A id \in CallIds : calls[id].owner = "disconnect" => calls[id].after # "threw"
====
